---- MODULE Spec2Model ----
(***************************************************************************)
(* A model of the stream-based execution fabric of mcp_agents: the inbound *)
(* worker (infra/redis/worker.py), the outbound dispatcher                 *)
(* (dispatchers/outbound_dispatcher.py), the idempotency store, the output *)
(* assembler (runtime/output_assembler.py) and the agent composer          *)
(* (agents/agent_definitions.py).                                          *)
(*                                                                         *)
(* Strings that the code trims or inspects by prefix are sequences of      *)
(* tokens; the token " " is whitespace.                                    *)
(***************************************************************************)
EXTENDS Integers, Sequences, FiniteSets, TLC

VARIABLES
    \* output assembler (runtime/output_assembler.py, worker.py:456-462)
    aPhase,      \* "input" | "extracted"
    aResult,     \* the supervisor result handed to extract_reply_text
    aReply,      \* the reply_text the worker goes on to publish
    \* agent composer (agents/agent_definitions.py)
    cPhase,      \* "input" | "done"
    cLlm,        \* what the structured LLM call does: a response, or it raises
    cDefs,       \* the AgentDefinitions returned: a sequence of tool lists
    \* idempotency store (infra/redis/idempotency_store.py) and wall clock
    now,         \* seconds
    sentKeys,    \* key sent:{out_id} -> the instant it expires; 0: no such key
    lastMark,    \* history: out_id -> instant of the last completed mark_sent; -1: never
    \* outbound stream and its consumer group
    outbound,    \* the entries XADDed, in order; an entry's id is its position
    dLast,       \* last-delivered-id of the group (the ">" cursor)
    dPel,        \* pending entries (delivered, not ACKed)
    dAcked,      \* history: entries XACKed
    \* dispatcher (dispatchers/outbound_dispatcher.py)
    dpc,         \* entry -> position of its _process_with_limit task
    dt,          \* entry -> locals and history of its current pass
    sendCount,   \* history: out_id -> successful channel sends (2: two or more)
    dRedelivered,\* redeliveries of pending outbound entries so far
    raced,       \* history: out_id -> two entries carrying it were inside _process_one at once
    \* inbound stream, its consumer group, and the worker (infra/redis/worker.py)
    inbound,     \* the entries XADDed by ingress, in order; an entry's id is its position
    wLast,       \* last-delivered-id of the group (the ">" cursor)
    wPel,        \* pending entries (delivered, not ACKed)
    wAcked,      \* history: entries XACKed
    wpc,         \* entry -> position of its _process_with_limit task
    wt,          \* entry -> locals and history of its current pass
    nextUuid,    \* uuid4 values drawn so far, plus one
    supervisor,  \* the supervisor handed to the worker: the outcomes a run of it may have
    \* one call of a request handler or of a function
    hPhase,      \* "idle" | "input" | "done"
    hReq,        \* the request or arguments
    hResp,       \* the response or value returned
    \* tool runtime: grounding tracker (infra/tool_execution_tracker.py) and
    \* provider-error normalisation (infra/tool_validation/notion_http.py)
    tasks,       \* asyncio task -> its position and the collector its context holds
    collectors,  \* the ToolExecutionCollector objects created so far: their events
    toolCalls,   \* history: the wrapped-tool invocations that reached the inner tool
    notionRepeat,\* _NOTION_VALIDATION_REPEAT: (tool, message) -> (count, last_seen_ts)
    \* memory store (infra/redis/memory_store.py)
    memory_user_events_max_items, \* the setting
    userEvents,  \* the Redis list mem:user:{user_id}:events, head first
    appended,    \* history: the events handed to append_user_event, in order
    \* concurrency limit (worker.py:324, outbound_dispatcher.py:42)
    semaphore    \* the slots left in asyncio.Semaphore(max_concurrency)

assembleVars == <<aPhase, aResult, aReply>>
composeVars == <<cPhase, cLlm, cDefs>>
idemVars == <<now, sentKeys, lastMark>>
outStreamVars == <<outbound, dLast, dPel, dAcked>>
dispVars == <<dpc, dt, sendCount, dRedelivered, raced>>
inStreamVars == <<inbound, wLast, wPel, wAcked>>
callVars == <<hPhase, hReq, hResp>>
toolVars == <<tasks, collectors, toolCalls, notionRepeat>>
memVars == <<memory_user_events_max_items, userEvents, appended>>
workVars == <<inbound, wLast, wPel, wAcked, wpc, wt, nextUuid, supervisor>>

vars == <<aPhase, aResult, aReply, cPhase, cLlm, cDefs, now, sentKeys, lastMark,
          outbound, dLast, dPel, dAcked, dpc, dt, sendCount, dRedelivered, raced,
          inbound, wLast, wPel, wAcked, wpc, wt, nextUuid,
          supervisor, hPhase, hReq, hResp,
          tasks, collectors, toolCalls, notionRepeat,
          memory_user_events_max_items, userEvents, appended, semaphore>>

-----------------------------------------------------------------------------
(* Bounds *)

\* longest message list of a supervisor result
MaxMsgs == 2

\* tools discovered on one server, and agents in one LLM response
MaxTools == 3
MaxAgents == 2

\* the configured settings.max_tools_per_agent
max_tools_per_agent == 2

\* media fields of a webhook form
MaxMedia == 1

\* agent definitions handed to the agent builder, and tool names in one
MaxDefs == 2
MaxDefTools == 1

\* components of a requested media path
MaxPathLen == 4

\* distinct out_ids, outbound entries, redeliveries of pending outbound entries
MaxOutIds == 2
MaxProducerIds == 1
MaxOutbound == 2
MaxOutRedeliveries == 1

\* dispatcher tasks inside _process_one at once (outbound_max_concurrency)
OutboundMaxConcurrency == 2

\* inbound entries
MaxInbound == 1

\* worker tasks inside _process_message at once (worker_max_concurrency)
WorkerMaxConcurrency == 2

\* clock: length of one tick in seconds, and number of ticks
TickSeconds == 86400
MaxTicks == 14

\* Tool invocations followed in one run of the grounding tracker
MaxToolCalls == 3

\* Provider validation errors followed in one run, and how far the clock goes
MaxOccurrences == 3
MaxRepeatTicks == 3

\* Events appended to the users' lists in one run
MaxAppends == 3

\* Entries the consume loop schedules in one run, and the max_concurrency
\* they are processed under
MaxScheduled == 4
LimitMaxConcurrency == 2

-----------------------------------------------------------------------------
(* Strings *)

SP == " "

RECURSIVE lstrip(_)
lstrip(s) == IF s # <<>> /\ Head(s) = SP THEN lstrip(Tail(s)) ELSE s

RECURSIVE rstrip(_)
rstrip(s) == IF s # <<>> /\ s[Len(s)] = SP THEN rstrip(SubSeq(s, 1, Len(s) - 1)) ELSE s

\* str.strip()
strip(s) == rstrip(lstrip(s))

\* str.startswith(p)
startswith(s, p) == Len(s) >= Len(p) /\ SubSeq(s, 1, Len(p)) = p

Reverse(s) == [i \in 1..Len(s) |-> s[Len(s) + 1 - i]]

-----------------------------------------------------------------------------
(* Output assembler *)

DoneText == <<"Done.">>

\* The word that only the message at position i of a result carries.
Word(i) == ToString(i)

\* The contents a message at position i may have: empty, blank, a text, a padded text.
ContentsAt(i) == {<<>>, <<SP>>, <<Word(i)>>, <<SP, Word(i), SP>>}

\* Message objects (langchain BaseMessage): class, name, content, the
\* response_metadata['__is_handoff_back'] marker, and whether tool_calls names
\* transfer_back_to_supervisor.
ObjKinds ==
    { [cls |-> "AI",    name |-> "supervisor", marker |-> FALSE, tcBack |-> FALSE],
      [cls |-> "AI",    name |-> "agent",      marker |-> FALSE, tcBack |-> FALSE],
      [cls |-> "AI",    name |-> "agent",      marker |-> TRUE,  tcBack |-> FALSE],
      [cls |-> "AI",    name |-> "supervisor", marker |-> FALSE, tcBack |-> TRUE],
      [cls |-> "Tool",  name |-> "agent",      marker |-> FALSE, tcBack |-> FALSE],
      [cls |-> "Tool",  name |-> "supervisor", marker |-> TRUE,  tcBack |-> FALSE],
      [cls |-> "Human", name |-> "none",       marker |-> FALSE, tcBack |-> FALSE] }

\* Dict-shaped messages: role, name, content; the same two markers may be
\* present as keys of the dict.
DictKinds ==
    { [cls |-> "assistant", name |-> "supervisor", marker |-> FALSE, tcBack |-> FALSE],
      [cls |-> "assistant", name |-> "agent",      marker |-> FALSE, tcBack |-> FALSE],
      [cls |-> "assistant", name |-> "agent",      marker |-> TRUE,  tcBack |-> FALSE],
      [cls |-> "assistant", name |-> "agent",      marker |-> FALSE, tcBack |-> TRUE],
      [cls |-> "tool",      name |-> "agent",      marker |-> FALSE, tcBack |-> FALSE] }

WithContent(k, c) ==
    [cls |-> k.cls, name |-> k.name, marker |-> k.marker, tcBack |-> k.tcBack, content |-> c]

MsgsAt(kinds, i) == {WithContent(k, c) : k \in kinds, c \in ContentsAt(i)}

RECURSIVE MsgLists(_, _)
MsgLists(kinds, n) ==
    IF n = 0 THEN {<<>>}
    ELSE LET shorter == MsgLists(kinds, n - 1)
         IN  shorter \cup
             {Append(l, m) : l \in {x \in shorter : Len(x) = n - 1}, m \in MsgsAt(kinds, n)}

NoMsg == [cls |-> "none", name |-> "none", marker |-> FALSE, tcBack |-> FALSE, content |-> <<>>]

\* The result shapes extract_reply_text accepts, with message lists of up
\* to n messages.
\*   "none"  None (and any other unsupported value)
\*   "str"   a plain string                      (text)
\*   "msg"   a single message object             (msg)
\*   "dict"  a dict: output, messages            (output, msgs; objs says whether
\*           the messages are message objects or dicts)
Results(n) ==
    {[shape |-> "none", text |-> <<>>, msg |-> NoMsg, output |-> <<>>, objs |-> TRUE, msgs |-> <<>>]}
    \cup {[shape |-> "str", text |-> c, msg |-> NoMsg, output |-> <<>>, objs |-> TRUE, msgs |-> <<>>]
            : c \in ContentsAt(1)}
    \cup {[shape |-> "msg", text |-> <<>>, msg |-> m, output |-> <<>>, objs |-> TRUE, msgs |-> <<>>]
            : m \in MsgsAt(ObjKinds, 1)}
    \cup {[shape |-> "dict", text |-> <<>>, msg |-> NoMsg, output |-> o, objs |-> TRUE, msgs |-> l]
            : o \in {<<>>, <<SP>>}, l \in MsgLists(ObjKinds, n)}
    \cup {[shape |-> "dict", text |-> <<>>, msg |-> NoMsg, output |-> o, objs |-> FALSE, msgs |-> l]
            : o \in {<<>>}, l \in MsgLists(DictKinds, n) \ {<<>>}}
    \cup {[shape |-> "dict", text |-> <<>>, msg |-> NoMsg, output |-> <<Word(0)>>, objs |-> TRUE, msgs |-> l]
            : l \in MsgLists(ObjKinds, 1)}

\* _is_handoff_or_internal(msg), for a message object
is_handoff_or_internal(m) ==
    \/ m.cls = "Tool"
    \/ m.marker
    \/ m.cls = "AI" /\ m.tcBack

\* _content(msg)
content(m) == strip(m.content)

SetMax(S) == CHOOSE x \in S : \A y \in S : y <= x

\* "for m in reversed(msgs): if <hit>: return content": the content of the
\* last message whose position is in hits; <<>> (None) when there is none.
LastHit(msgs, hits) == IF hits = {} THEN <<>> ELSE content(msgs[SetMax(hits)])

\* A picker that forgets the name test: the last non-internal AI message of
\* any agent is taken for the supervisor's answer.
pick_last_answer_of_any_name(messages) ==
    LastHit(messages, {i \in 1..Len(messages) :
                         /\ ~is_handoff_or_internal(messages[i])
                         /\ messages[i].cls = "AI"
                         /\ content(messages[i]) # <<>>})

\* _pick_last_supervisor_answer(messages); <<>> stands for None
pick_last_supervisor_answer(messages) ==
    LastHit(messages, {i \in 1..Len(messages) :
                         /\ ~is_handoff_or_internal(messages[i])
                         /\ messages[i].cls = "AI" /\ messages[i].name = "supervisor"
                         /\ content(messages[i]) # <<>>})

\* _pick_last_non_internal_answer(messages); <<>> stands for None
pick_last_non_internal_answer(messages) ==
    LastHit(messages, {i \in 1..Len(messages) :
                         /\ ~is_handoff_or_internal(messages[i])
                         /\ messages[i].cls = "AI"
                         /\ content(messages[i]) # <<>>})

\* The first loop over dict-shaped messages (output_assembler.py:131-141).
dict_supervisor_answer(msgs) ==
    LastHit(msgs, {i \in 1..Len(msgs) :
                     /\ content(msgs[i]) # <<>> /\ msgs[i].cls # "tool"
                     /\ msgs[i].name = "supervisor"})

\* The second loop over dict-shaped messages (output_assembler.py:143-149).
dict_fallback_answer(msgs) ==
    LastHit(msgs, {i \in 1..Len(msgs) : content(msgs[i]) # <<>> /\ msgs[i].cls # "tool"})

\* extract_reply_text(result)
extract_reply_text(r) ==
    CASE r.shape = "none" -> <<>>
      [] r.shape = "str"  -> strip(r.text)
      [] r.shape = "msg"  -> IF is_handoff_or_internal(r.msg) THEN <<>> ELSE content(r.msg)
      [] r.shape = "dict" ->
            IF strip(r.output) # <<>> THEN strip(r.output)
            ELSE IF r.msgs = <<>> THEN <<>>
            ELSE IF r.objs
                 THEN IF pick_last_supervisor_answer(r.msgs) # <<>>
                      THEN pick_last_supervisor_answer(r.msgs)
                      ELSE pick_last_non_internal_answer(r.msgs)
                 ELSE IF dict_supervisor_answer(r.msgs) # <<>>
                      THEN dict_supervisor_answer(r.msgs)
                      ELSE dict_fallback_answer(r.msgs)

\* reply_text = extract_reply_text(result) or "Done."   (worker.py:458)
reply_text_of(r) == IF extract_reply_text(r) = <<>> THEN DoneText ELSE extract_reply_text(r)

\* worker.py:456-462: output extraction of one processing pass
ExtractReply ==
    /\ aPhase = "input"
    /\ aPhase' = "extracted"
    /\ aReply' = reply_text_of(aResult)
    /\ UNCHANGED aResult
    /\ UNCHANGED <<callVars, workVars, composeVars, toolVars, memVars, semaphore, idemVars, outStreamVars, dispVars>>

-----------------------------------------------------------------------------
(* Agent composer: create_agent_definitions_with_llm for the tools of one  *)
(* server.  An agent definition is modelled by its tools list.             *)

\* tagged_tools: the discovered, non-blacklisted tools of the server
TaggedTools == 1..MaxTools

\* A tools list the LLM may give one agent: any tools, in ascending order.
RECURSIVE SeqOfSet(_)
SeqOfSet(S) == IF S = {} THEN <<>>
               ELSE LET x == CHOOSE y \in S : \A z \in S : y <= z
                    IN  <<x>> \o SeqOfSet(S \ {x})

ToolLists == {SeqOfSet(S) : S \in SUBSET TaggedTools}

RECURSIVE AgentLists(_)
AgentLists(n) ==
    IF n = 0 THEN {<<>>}
    ELSE LET shorter == AgentLists(n - 1)
         IN  shorter \cup
             {Append(l, a) : l \in {x \in shorter : Len(x) = n - 1}, a \in ToolLists}

\* What structured_llm.invoke(prompt) does: returns AgentDefinitions, or raises.
LlmOutcomes ==
    {[raises |-> FALSE, agents |-> l] : l \in AgentLists(MaxAgents)}
    \cup {[raises |-> TRUE, agents |-> <<>>]}

Range(s) == {s[i] : i \in 1..Len(s)}

\* agent_definitions.py:329-335: the tools no agent of the response lists
missing_tools(agents) ==
    TaggedTools \ UNION {Range(agents[i]) : i \in 1..Len(agents)}

\* agent_definitions.py:337-341: missing tools are appended to the first agent,
\* when there is one.
attach_missing(agents) ==
    IF missing_tools(agents) # {} /\ agents # <<>>
    THEN [agents EXCEPT ![1] = agents[1] \o SeqOfSet(missing_tools(agents))]
    ELSE agents

\* create_agent_definitions_from_source, for one server: one agent holding
\* all of the server's tools.
create_agent_definitions_from_source == <<SeqOfSet(TaggedTools)>>

\* create_agent_definitions_with_llm(tagged_tools, llm, ...)
create_agent_definitions_with_llm(llm) ==
    IF llm.raises THEN create_agent_definitions_from_source
    ELSE attach_missing(llm.agents)

\* One run of agent composition for the server.
Compose ==
    /\ cPhase = "input"
    /\ cPhase' = "done"
    /\ cDefs' = create_agent_definitions_with_llm(cLlm)
    /\ UNCHANGED cLlm
    /\ UNCHANGED <<callVars, workVars, assembleVars, idemVars, outStreamVars, dispVars>>
    /\ UNCHANGED <<toolVars, memVars, semaphore>>

-----------------------------------------------------------------------------
(* Idempotency store: key sent:{out_id} -> "1" with a TTL                   *)

outbound_idempotency_ttl_seconds == 604800

\* uuid.uuid4(): the n-th fresh id
uuid(n) == <<"uuid-" \o ToString(n)>>

OutIds == {uuid(n) : n \in 1..MaxOutIds}

\* The out_ids of the envelopes a replaying producer appends.
ProducerIds == {uuid(n) : n \in 1..MaxProducerIds}

\* IdempotencyStore.was_sent(out_id): GET sent:{out_id} is not None.  A key
\* with a TTL is gone from the instant it expires.
was_sent(out_id) == sentKeys[out_id] # 0 /\ now < sentKeys[out_id]

\* Variant of mark_sent: the TTL is handed over as milliseconds (PX).
mark_sent_px(out_id) ==
    /\ sentKeys' = [sentKeys EXCEPT ![out_id] = now + outbound_idempotency_ttl_seconds \div 1000]
    /\ lastMark' = [lastMark EXCEPT ![out_id] = now]

\* Variant of mark_sent: the SET is lost, the call still returns.
mark_sent_lost(out_id) ==
    /\ sentKeys' = sentKeys
    /\ lastMark' = [lastMark EXCEPT ![out_id] = now]

\* IdempotencyStore.mark_sent(out_id): SET sent:{out_id} "1" EX ttl
mark_sent(out_id) ==
    /\ sentKeys' = [sentKeys EXCEPT ![out_id] = now + outbound_idempotency_ttl_seconds]
    /\ lastMark' = [lastMark EXCEPT ![out_id] = now]

\* A caller completes mark_sent(out_id).
IdemMarkSent(o) ==
    /\ mark_sent(o)
    /\ UNCHANGED now
    /\ UNCHANGED <<callVars, workVars, assembleVars, composeVars, toolVars, memVars, semaphore, outStreamVars, dispVars>>

\* Time passes.
Tick ==
    /\ now + TickSeconds <= MaxTicks * TickSeconds
    /\ now' = now + TickSeconds
    /\ UNCHANGED <<sentKeys, lastMark>>
    /\ UNCHANGED <<callVars, workVars, assembleVars, composeVars, toolVars, memVars, semaphore, outStreamVars, dispVars>>

InitIdem ==
    /\ now = 0
    /\ sentKeys = [o \in OutIds |-> 0]
    /\ lastMark = [o \in OutIds |-> -1]

-----------------------------------------------------------------------------
(* Outbound stream and dispatcher *)

\* The outbound payloads a producer may append: valid envelopes for each
\* out_id, a valid envelope for a channel without adapter, and envelopes with
\* a required field missing or blank.
Envelope(o, c, src, u, r) ==
    [out_id |-> o, correlation_id |-> c, source |-> src, user_id |-> u, reply_text |-> r]

\* message_id of the inbound entry at position m
message_id(m) == <<"msg-" \o ToString(m)>>

OutboundPayloads ==
    {Envelope(o, message_id(1), <<"whatsapp">>, <<"whatsapp:+1">>, <<"hi">>) : o \in ProducerIds}
    \cup { Envelope(uuid(1), message_id(1), <<"sms">>, <<"whatsapp:+1">>, <<"hi">>),
           Envelope(<<SP>>, message_id(1), <<"whatsapp">>, <<"whatsapp:+1">>, <<"hi">>),
           Envelope(uuid(1), message_id(1), <<"whatsapp">>, <<>>, <<"hi">>),
           Envelope(uuid(1), message_id(1), <<"whatsapp">>, <<"whatsapp:+1">>, <<SP>>) }

OutEntries == 1..Len(outbound)

\* RedisStreamOutboundPublisher.publish_output(payload): XADD to the outbound stream
publish_output(payload) == outbound' = Append(outbound, payload)

\* A producer appends a payload (the worker, or a replay of an envelope).
ProducerPublish ==
    /\ Len(outbound) < MaxOutbound
    /\ \E p \in OutboundPayloads : publish_output(p)
    /\ UNCHANGED <<dLast, dPel, dAcked>>
    /\ UNCHANGED <<callVars, workVars, assembleVars, composeVars, toolVars, memVars, semaphore, idemVars, dispVars>>

\* The worker appends an envelope for a reply on some channel, with an
\* out_id of its own (uuid4).
PublishFresh ==
    /\ Len(outbound) < MaxOutbound
    /\ Len(outbound) < MaxOutIds
    /\ \E src \in {<<"whatsapp">>, <<"sms">>} :
          publish_output(Envelope(uuid(Len(outbound) + 1), message_id(Len(outbound) + 1),
                                  src, <<"whatsapp:+1">>, <<"hi">>))
    /\ UNCHANGED <<dLast, dPel, dAcked>>
    /\ UNCHANGED <<callVars, workVars, assembleVars, composeVars, toolVars, memVars, semaphore, idemVars, dispVars>>

\* _process_one's locals (outbound_dispatcher.py:101-104)
d_out_id(e) == strip(outbound[e].out_id)
d_source(e) == IF strip(outbound[e].source) = <<>> THEN <<"unknown">>
               ELSE strip(outbound[e].source)
d_user_id(e) == strip(outbound[e].user_id)
d_reply_text(e) == strip(outbound[e].reply_text)

\* Variant of d_valid: a blank reply_text is let through.
d_valid_any_text(e) == d_out_id(e) # <<>> /\ d_user_id(e) # <<>>

\* not (not out_id or not user_id or not reply_text)   (outbound_dispatcher.py:106)
d_valid(e) == d_out_id(e) # <<>> /\ d_user_id(e) # <<>> /\ d_reply_text(e) # <<>>

\* Positions of a dispatcher task.
\*   "none"    never delivered        "sched"  task created, waiting for the semaphore
\*   "check"   about to ask was_sent  "send"   about to send on the channel
\*   "mark"    about to mark_sent     "ack"    about to XACK after delivery
\*   "ackonly" about to XACK a poison or already-sent entry
\*   "done"    returned               "failed" returned through the except branch
\*   "raised"  ended with an exception that escaped _process_one
DInside == {"check", "send", "mark", "ack", "ackonly"}
DOver == {"done", "failed", "raised"}

\* Locals and history of one pass: what was_sent answered, and the
\* operations that succeeded so far, in order.
FreshPass == [saw |-> "na", log |-> <<>>]

InitOutStream ==
    /\ outbound = <<>>
    /\ dLast = 0
    /\ dPel = {}
    /\ dAcked = {}

InitDispatcher ==
    /\ dpc = [e \in 1..MaxOutbound |-> "none"]
    /\ dt = [e \in 1..MaxOutbound |-> FreshPass]
    /\ sendCount = [o \in OutIds |-> 0]
    /\ dRedelivered = 0
    /\ raced = [o \in OutIds |-> FALSE]

\* XACK of entry e
xack_out(e) == dPel' = dPel \ {e} /\ dAcked' = dAcked \cup {e}

\* OutboundDispatcher._consume_once: XREADGROUP ">" returns the entries never
\* delivered to the group (at most 10), which become pending; one task is
\* created per entry.
consume_count == 10

DConsumeOnce ==
    /\ dLast < Len(outbound)
    /\ LET upto == IF Len(outbound) - dLast > consume_count
                   THEN dLast + consume_count ELSE Len(outbound)
           got == (dLast + 1)..upto
       IN  /\ dLast' = upto
           /\ dPel' = dPel \cup got
           /\ dpc' = [e \in 1..MaxOutbound |-> IF e \in got THEN "sched" ELSE dpc[e]]
           /\ dt' = [e \in 1..MaxOutbound |-> IF e \in got THEN FreshPass ELSE dt[e]]
    /\ UNCHANGED <<outbound, dAcked, sendCount, dRedelivered, raced>>
    /\ UNCHANGED <<callVars, workVars, assembleVars, composeVars, toolVars, memVars, semaphore, idemVars>>

\* The store hands a pending entry, whose earlier pass is over, to the
\* dispatcher again (redelivery of a non-ACKed entry).
StoreRedeliverOutbound(e) ==
    /\ e \in dPel
    /\ dpc[e] \in {"failed", "raised"}
    /\ dRedelivered < MaxOutRedeliveries
    /\ dRedelivered' = dRedelivered + 1
    /\ dpc' = [dpc EXCEPT ![e] = "sched"]
    /\ dt' = [dt EXCEPT ![e] = FreshPass]
    /\ UNCHANGED <<outStreamVars, sendCount, raced>>
    /\ UNCHANGED <<callVars, workVars, assembleVars, composeVars, toolVars, memVars, semaphore, idemVars>>

\* _process_with_limit enters the semaphore; _process_one reads and validates
\* the fields (outbound_dispatcher.py:96-107).
DStart(e) ==
    /\ dpc[e] = "sched"
    /\ Cardinality({x \in 1..MaxOutbound : dpc[x] \in DInside}) < OutboundMaxConcurrency
    /\ dpc' = [dpc EXCEPT ![e] = IF d_valid(e) THEN "check" ELSE "ackonly"]
    /\ raced' = [o \in OutIds |->
                    raced[o] \/ (d_out_id(e) = o /\ \E x \in OutEntries \ {e} :
                                    dpc[x] \in DInside /\ d_out_id(x) = o)]
    /\ UNCHANGED <<outStreamVars, dt, sendCount, dRedelivered>>
    /\ UNCHANGED <<callVars, workVars, assembleVars, composeVars, toolVars, memVars, semaphore, idemVars>>

\* await self.idempotency.was_sent(out_id)   (outbound_dispatcher.py:113)
DCheck(e) ==
    /\ dpc[e] = "check"
    /\ \/ /\ dpc' = [dpc EXCEPT ![e] = IF was_sent(d_out_id(e)) THEN "ackonly" ELSE "send"]
          /\ dt' = [dt EXCEPT ![e].saw = IF was_sent(d_out_id(e)) THEN "sent" ELSE "unsent"]
       \/ \* the GET fails: the exception leaves _process_one
          /\ dpc' = [dpc EXCEPT ![e] = "raised"]
          /\ UNCHANGED dt
    /\ UNCHANGED <<outStreamVars, sendCount, dRedelivered, raced>>
    /\ UNCHANGED <<callVars, workVars, assembleVars, composeVars, toolVars, memVars, semaphore, idemVars>>

\* Variant of DSend: a failure of the send is swallowed and the pass goes on.
DSend_swallowed(e) ==
    /\ dpc[e] = "send"
    /\ dpc' = [dpc EXCEPT ![e] = "mark"]
    /\ \/ /\ d_source(e) = <<"whatsapp">>
          /\ dt' = [dt EXCEPT ![e].log = Append(@, "send")]
          /\ sendCount' = [sendCount EXCEPT ![d_out_id(e)] = IF @ < 2 THEN @ + 1 ELSE @]
       \/ UNCHANGED <<dt, sendCount>>
    /\ UNCHANGED <<outStreamVars, dRedelivered, raced>>
    /\ UNCHANGED <<callVars, workVars, assembleVars, composeVars, toolVars, memVars, semaphore, idemVars>>

\* Variant of DSend: every source is sent through the WhatsApp adapter.
DSend_any_source(e) ==
    /\ dpc[e] = "send"
    /\ \/ /\ dpc' = [dpc EXCEPT ![e] = "mark"]
          /\ dt' = [dt EXCEPT ![e].log = Append(@, "send")]
          /\ sendCount' = [sendCount EXCEPT ![d_out_id(e)] = IF @ < 2 THEN @ + 1 ELSE @]
       \/ /\ dpc' = [dpc EXCEPT ![e] = "failed"]
          /\ UNCHANGED <<dt, sendCount>>
    /\ UNCHANGED <<outStreamVars, dRedelivered, raced>>
    /\ UNCHANGED <<callVars, workVars, assembleVars, composeVars, toolVars, memVars, semaphore, idemVars>>

\* The channel send (outbound_dispatcher.py:120-126)
DSend(e) ==
    /\ dpc[e] = "send"
    /\ \/ /\ d_source(e) = <<"whatsapp">>
          /\ dpc' = [dpc EXCEPT ![e] = "mark"]
          /\ dt' = [dt EXCEPT ![e].log = Append(@, "send")]
          /\ sendCount' = [sendCount EXCEPT ![d_out_id(e)] = IF @ < 2 THEN @ + 1 ELSE @]
       \/ \* the adapter raises, or the source has no adapter (ValueError)
          /\ dpc' = [dpc EXCEPT ![e] = "failed"]
          /\ UNCHANGED <<dt, sendCount>>
    /\ UNCHANGED <<outStreamVars, dRedelivered, raced>>
    /\ UNCHANGED <<callVars, workVars, assembleVars, composeVars, toolVars, memVars, semaphore, idemVars>>

\* await self.idempotency.mark_sent(out_id)   (outbound_dispatcher.py:128)
DMark(e) ==
    /\ dpc[e] = "mark"
    /\ \/ /\ mark_sent(d_out_id(e))
          /\ dpc' = [dpc EXCEPT ![e] = "ack"]
          /\ dt' = [dt EXCEPT ![e].log = Append(@, "mark")]
          /\ UNCHANGED now
       \/ /\ dpc' = [dpc EXCEPT ![e] = "failed"]
          /\ UNCHANGED <<dt, idemVars>>
    /\ UNCHANGED <<outStreamVars, sendCount, dRedelivered, raced>>
    /\ UNCHANGED <<callVars, workVars, assembleVars, composeVars, toolVars, memVars, semaphore>>

\* await client.xack(...) after the delivery   (outbound_dispatcher.py:131)
DAck(e) ==
    /\ dpc[e] = "ack"
    /\ \/ /\ xack_out(e)
          /\ dpc' = [dpc EXCEPT ![e] = "done"]
          /\ dt' = [dt EXCEPT ![e].log = Append(@, "ack")]
       \/ /\ dpc' = [dpc EXCEPT ![e] = "failed"]
          /\ UNCHANGED <<dt, dPel, dAcked>>
    /\ UNCHANGED <<outbound, dLast, sendCount, dRedelivered, raced>>
    /\ UNCHANGED <<callVars, workVars, assembleVars, composeVars, toolVars, memVars, semaphore, idemVars>>

\* await client.xack(...) of an invalid or already-sent entry, then return
\* (outbound_dispatcher.py:109-110, 115-116)
DAckOnly(e) ==
    /\ dpc[e] = "ackonly"
    /\ \/ /\ xack_out(e)
          /\ dpc' = [dpc EXCEPT ![e] = "done"]
          /\ dt' = [dt EXCEPT ![e].log = Append(@, "ack")]
       \/ /\ dpc' = [dpc EXCEPT ![e] = "raised"]
          /\ UNCHANGED <<dt, dPel, dAcked>>
    /\ UNCHANGED <<outbound, dLast, sendCount, dRedelivered, raced>>
    /\ UNCHANGED <<callVars, workVars, assembleVars, composeVars, toolVars, memVars, semaphore, idemVars>>

-----------------------------------------------------------------------------
(* Grounding tracker (infra/tool_execution_tracker.py)                      *)

INTERNAL_TOOL_PREFIXES == {<<"transfer_to_">>}

INTERNAL_TOOL_NAMES ==
    {<<"transfer_back_to_supervisor">>, <<"memory_get_context">>, <<"get_current_datetime">>}

\* is_internal_tool_name(name)
is_internal_tool_name(name) ==
    \/ strip(name) = <<>>
    \/ strip(name) \in INTERNAL_TOOL_NAMES
    \/ \E p \in INTERNAL_TOOL_PREFIXES : startswith(strip(name), p)

\* Variant of any_grounded_success: the ok flag of an event is not looked at.
any_grounded_success_any_result(events, count_local_audio) ==
    \E i \in 1..Len(events) :
        /\ ~is_internal_tool_name(events[i].name)
        /\ ~(~count_local_audio /\ startswith(events[i].name, <<"localAudio_">>))

\* any_grounded_success(count_local_audio=...) over the collector's events
any_grounded_success(events, count_local_audio) ==
    \E i \in 1..Len(events) :
        /\ events[i].ok
        /\ ~is_internal_tool_name(events[i].name)
        /\ ~(~count_local_audio /\ startswith(events[i].name, <<"localAudio_">>))

-----------------------------------------------------------------------------
(* Inbound stream and worker (infra/redis/worker.py)                        *)

Ev(n, k) == [name |-> n, ok |-> k]

\* What the tools wrapped by the validation layer recorded during one
\* supervisor run.
EventTraces ==
    { <<>>,
      <<Ev(<<"notion_", "search">>, TRUE)>>,
      <<Ev(<<"notion_", "search">>, FALSE)>>,
      <<Ev(<<"transfer_to_", "notes">>, TRUE), Ev(<<"transfer_back_to_supervisor">>, TRUE)>>,
      <<Ev(<<"memory_get_context">>, TRUE), Ev(<<"get_current_datetime">>, TRUE)>>,
      <<Ev(<<"localAudio_", "text_to_speech">>, TRUE), Ev(<<SP, "transfer_to_", "notes">>, TRUE)>>,
      <<Ev(<<"notion_", "search">>, FALSE), Ev(<<"notion_", "create">>, TRUE)>> }

\* Supervisor results: the dict langgraph returns, with the reply in "output"
\* or nowhere, and structured_response.status "success", "error" or absent.
SupervisorResult(out, st) ==
    [shape |-> "dict", text |-> <<>>, msg |-> NoMsg, output |-> out, objs |-> TRUE,
     msgs |-> <<>>, status |-> st]

\* The string prepare_for_supervisor answers with when there is no text.
ImmediateReply ==
    [shape |-> "str", text |-> <<"Send a message and I'll help.">>, msg |-> NoMsg,
     output |-> <<>>, objs |-> TRUE, msgs |-> <<>>, status |-> <<>>]

NoResult ==
    [shape |-> "none", text |-> <<>>, msg |-> NoMsg, output |-> <<>>, objs |-> TRUE,
     msgs |-> <<>>, status |-> <<>>]

\* Outcomes of one supervisor run: the result and the recorded events.
SupervisorOutcomes ==
    {[result |-> SupervisorResult(<<"reply">>, <<"success">>), events |-> t] : t \in EventTraces}
    \cup {[result |-> SupervisorResult(<<"reply">>, <<"error">>),
           events |-> <<Ev(<<"notion_", "search">>, TRUE)>>],
          [result |-> SupervisorResult(<<>>, <<>>),
           events |-> <<Ev(<<"notion_", "search">>, TRUE)>>]}

\* str.lower() of the status tokens
LowerToken(t) == IF t = "SUCCESS" \/ t = "Success" THEN "success"
                 ELSE IF t = "ERROR" \/ t = "Error" THEN "error" ELSE t

lower(s) == [i \in 1..Len(s) |-> LowerToken(s[i])]

\* _extract_structured_fields(result)[0]; <<>> stands for None
extract_structured_status(r) == IF r.shape = "dict" THEN strip(r.status) ELSE <<>>

\* status_norm = (status or "").strip().lower()
status_norm(r) == lower(strip(extract_structured_status(r)))

\* The inbound payloads ingress appends.
\*   "text"   a text message          "audio"  a voice note without text
\*   "blank"  neither text nor audio
InboundKinds == {"text", "audio", "blank"}

InEntries == 1..Len(inbound)

\* Positions of a worker task.
\*   "none"       never delivered     "sched"    task created, waiting for the semaphore
\*   "prefetch"   about to reset the tracker and prefetch the memory context
\*   "supervise"  about to invoke the supervisor
\*   "reply"      about to extract the reply, build the envelope, synthesize audio
\*   "memory"     at the memory gate  "publish"  about to publish the envelope
\*   "ack"        about to XACK       "done"     returned after the ACK
\*   "failed"     returned through the except branch
\*   "raised"     ended with an exception that escaped _process_message
\*   "crashed"    the process stopped while the task was under way
WInside == {"prefetch", "supervise", "reply", "memory", "publish", "ack"}
WOver == {"done", "failed", "raised", "crashed"}

\* Locals and history of one pass.
\*   audio      pre.inbound_has_audio       result   the supervisor result or immediate reply
\*   events     the tracker's collector     oid      number of the uuid4 drawn for out_id; 0: none
\*   audioUrl   reply_audio_url attached    wrote    memory documents written, in the order
\*   published  the envelope was appended            conversation state, profile, event
\*   prefetch   the supervisor input, until it is handed over: "ok" with the memory
\*              context, "failed" without it (get_context raised), "na" not built
\*   sttFailed  transcribe_twilio_audio raised
FreshWPass ==
    [audio |-> FALSE, result |-> NoResult, events |-> <<>>, oid |-> 0,
     audioUrl |-> FALSE, wrote |-> 0, published |-> FALSE, prefetch |-> "na",
     sttFailed |-> FALSE]

\* What is left of a pass when its task is over: the locals are gone.
EndOfPass(t) == [FreshWPass EXCEPT !.published = t.published]

InitInStream ==
    /\ inbound = <<>>
    /\ wLast = 0
    /\ wPel = {}
    /\ wAcked = {}

InitWorkerTasks ==
    /\ wpc = [m \in 1..MaxInbound |-> "none"]
    /\ wt = [m \in 1..MaxInbound |-> FreshWPass]
    /\ nextUuid = 1

\* No worker runs.
IdleWorker == InitWorkerTasks /\ supervisor = {}

\* The runs of one supervisor end alike: it is handed over as one outcome.
InitWorker == InitWorkerTasks /\ supervisor \in {{o} : o \in SupervisorOutcomes}

\* RedisStreamPublisher.publish: ingress XADDs an inbound entry.
Ingress ==
    /\ Len(inbound) < MaxInbound
    /\ \E k \in InboundKinds : inbound' = Append(inbound, [kind |-> k])
    /\ UNCHANGED <<wLast, wPel, wAcked, wpc, wt, nextUuid, supervisor>>
    /\ UNCHANGED <<callVars, assembleVars, composeVars, toolVars, memVars, semaphore, idemVars, outStreamVars, dispVars>>

\* RedisStreamWorker._consume_once: XREADGROUP ">" returns the entries never
\* delivered to the group (at most 10), which become pending; one task is
\* created per entry.
WConsumeOnce ==
    /\ wLast < Len(inbound)
    /\ LET upto == IF Len(inbound) - wLast > consume_count
                   THEN wLast + consume_count ELSE Len(inbound)
           got == (wLast + 1)..upto
       IN  /\ wLast' = upto
           /\ wPel' = wPel \cup got
           /\ wpc' = [m \in 1..MaxInbound |-> IF m \in got THEN "sched" ELSE wpc[m]]
           /\ wt' = [m \in 1..MaxInbound |-> IF m \in got THEN FreshWPass ELSE wt[m]]
    /\ UNCHANGED <<inbound, wAcked, nextUuid, supervisor>>
    /\ UNCHANGED <<callVars, assembleVars, composeVars, toolVars, memVars, semaphore, idemVars, outStreamVars, dispVars>>

\* The store hands a pending entry, whose earlier pass is over, to the
\* worker again (redelivery of a non-ACKed entry).
StoreRedeliverInbound(m) ==
    /\ m \in wPel
    /\ wpc[m] \in {"failed", "raised", "crashed"}
    /\ wpc' = [wpc EXCEPT ![m] = "sched"]
    /\ wt' = [wt EXCEPT ![m] = FreshWPass]
    /\ UNCHANGED <<inStreamVars, nextUuid, supervisor>>
    /\ UNCHANGED <<callVars, assembleVars, composeVars, toolVars, memVars, semaphore, idemVars, outStreamVars, dispVars>>

\* The worker process stops and is started again: the tasks under way are
\* gone; start() finds the group (BUSYGROUP) and goes on reading ">".
WorkerRestart ==
    /\ \E m \in InEntries : wpc[m] \in WInside \cup {"sched"}
    /\ wpc' = [m \in 1..MaxInbound |->
                 IF wpc[m] \in WInside \cup {"sched"} THEN "crashed" ELSE wpc[m]]
    /\ wt' = [m \in 1..MaxInbound |->
                 IF wpc[m] \in WInside \cup {"sched"} THEN EndOfPass(wt[m]) ELSE wt[m]]
    /\ UNCHANGED <<inStreamVars, nextUuid, supervisor>>
    /\ UNCHANGED <<callVars, assembleVars, composeVars, toolVars, memVars, semaphore, idemVars, outStreamVars, dispVars>>

\* Variant of WStart: the immediate reply does not keep the pass from the
\* supervisor.
WStart_supervising_anyway(m) ==
    /\ wpc[m] = "sched"
    /\ Cardinality({x \in 1..MaxInbound : wpc[x] \in WInside}) < WorkerMaxConcurrency
    /\ \/ /\ inbound[m].kind \in {"text", "audio"}
          /\ wpc' = [wpc EXCEPT ![m] = "prefetch"]
          /\ wt' = [wt EXCEPT ![m].audio = (inbound[m].kind = "audio")]
       \/ /\ inbound[m].kind \in {"blank", "audio"}
          /\ wpc' = [wpc EXCEPT ![m] = "prefetch"]
          /\ wt' = [wt EXCEPT ![m].audio = (inbound[m].kind = "audio"),
                              ![m].result = ImmediateReply]
       \/ /\ inbound[m].kind \in {"text", "audio"}
          /\ wpc' = [wpc EXCEPT ![m] = "raised"]
          /\ UNCHANGED wt
    /\ UNCHANGED <<inStreamVars, nextUuid, supervisor>>
    /\ UNCHANGED <<callVars, assembleVars, composeVars, toolVars, memVars, semaphore, idemVars, outStreamVars, dispVars>>

\* _process_with_limit enters the semaphore; _process_message builds the
\* context and awaits prepare_for_supervisor, outside the try (worker.py:409-418).
WStart(m) ==
    /\ wpc[m] = "sched"
    /\ Cardinality({x \in 1..MaxInbound : wpc[x] \in WInside}) < WorkerMaxConcurrency
    /\ \/ \* a text was sent or transcribed: supervisor input ready
          /\ inbound[m].kind \in {"text", "audio"}
          /\ wpc' = [wpc EXCEPT ![m] = "prefetch"]
          /\ wt' = [wt EXCEPT ![m].audio = (inbound[m].kind = "audio")]
       \/ \* no text, or an empty transcript: immediate reply
          /\ inbound[m].kind \in {"blank", "audio"}
          /\ wpc' = [wpc EXCEPT ![m] = "reply"]
          /\ wt' = [wt EXCEPT ![m].audio = (inbound[m].kind = "audio"),
                              ![m].result = ImmediateReply]
       \/ \* language detection raises
          /\ inbound[m].kind \in {"text", "audio"}
          /\ wpc' = [wpc EXCEPT ![m] = "raised"]
          /\ UNCHANGED wt
       \/ \* the download or the transcription raises (pre_supervisor.py:81-90)
          /\ inbound[m].kind = "audio"
          /\ wpc' = [wpc EXCEPT ![m] = "raised"]
          /\ wt' = [wt EXCEPT ![m].sttFailed = TRUE]
    /\ UNCHANGED <<inStreamVars, nextUuid, supervisor>>
    /\ UNCHANGED <<callVars, assembleVars, composeVars, toolVars, memVars, semaphore, idemVars, outStreamVars, dispVars>>

\* reset_tool_events() and the memory prefetch: when get_context raises, the
\* supervisor input goes on without memory_context (worker.py:438-452)
WPrefetch(m) ==
    /\ wpc[m] = "prefetch"
    /\ wpc' = [wpc EXCEPT ![m] = "supervise"]
    /\ \E p \in {"ok", "failed"} : wt' = [wt EXCEPT ![m].prefetch = p]
    /\ UNCHANGED <<inStreamVars, nextUuid, supervisor>>
    /\ UNCHANGED <<callVars, assembleVars, composeVars, toolVars, memVars, semaphore, idemVars, outStreamVars, dispVars>>

\* _invoke_supervisor (worker.py:454)
WSupervise(m) ==
    /\ wpc[m] = "supervise"
    /\ \/ \E o \in supervisor :
            /\ wt' = [wt EXCEPT ![m].result = o.result, ![m].events = o.events,
                                ![m].prefetch = "na"]
            /\ wpc' = [wpc EXCEPT ![m] = "reply"]
       \/ \* the supervisor raises
          /\ wpc' = [wpc EXCEPT ![m] = "failed"]
          /\ wt' = [wt EXCEPT ![m] = EndOfPass(@)]
    /\ UNCHANGED <<inStreamVars, nextUuid, supervisor>>
    /\ UNCHANGED <<callVars, assembleVars, composeVars, toolVars, memVars, semaphore, idemVars, outStreamVars, dispVars>>

\* Output extraction, _build_outbound_payload, and the audio reply when the
\* inbound had audio; a TTS failure is swallowed (worker.py:456-471)
WReply(m) ==
    /\ wpc[m] = "reply"
    /\ nextUuid <= MaxOutIds
    /\ nextUuid' = nextUuid + 1
    /\ wpc' = [wpc EXCEPT ![m] = "memory"]
    /\ \E url \in (IF wt[m].audio THEN BOOLEAN ELSE {FALSE}) :
          wt' = [wt EXCEPT ![m].oid = nextUuid, ![m].audioUrl = url]
    /\ UNCHANGED <<inStreamVars, supervisor>>
    /\ UNCHANGED <<callVars, assembleVars, composeVars, toolVars, memVars, semaphore, idemVars, outStreamVars, dispVars>>

\* status_norm == "success" and grounded   (worker.py:475-478)
memory_gate(r, events) ==
    status_norm(r) = <<"success">> /\ any_grounded_success(events, FALSE)

\* Variant of WMemory: a failed write ends the pass.
WMemory_raising(m) ==
    /\ wpc[m] = "memory"
    /\ \E n \in (IF memory_gate(wt[m].result, wt[m].events) THEN 0..3 ELSE {0}) :
          /\ wt' = [wt EXCEPT ![m].wrote = n]
          /\ wpc' = [wpc EXCEPT ![m] =
                        IF memory_gate(wt[m].result, wt[m].events) /\ n < 3
                        THEN "failed" ELSE "publish"]
    /\ UNCHANGED <<inStreamVars, nextUuid, supervisor>>
    /\ UNCHANGED <<callVars, assembleVars, composeVars, toolVars, memVars, semaphore, idemVars, outStreamVars, dispVars>>

\* The memory step: safe_write_success writes conversation state, profile
\* and event in this order and swallows a failure (worker.py:473-501)
WMemory(m) ==
    /\ wpc[m] = "memory"
    /\ wpc' = [wpc EXCEPT ![m] = "publish"]
    /\ \E n \in (IF memory_gate(wt[m].result, wt[m].events) THEN 0..3 ELSE {0}) :
          wt' = [wt EXCEPT ![m].wrote = n]
    /\ UNCHANGED <<inStreamVars, nextUuid, supervisor>>
    /\ UNCHANGED <<callVars, assembleVars, composeVars, toolVars, memVars, semaphore, idemVars, outStreamVars, dispVars>>

\* Variant of build_outbound_payload: the out_id is derived from the message.
build_outbound_payload_keyed(m) ==
    Envelope(uuid(m), message_id(m), <<"whatsapp">>, <<"whatsapp:+1">>,
             reply_text_of(wt[m].result))

\* _build_outbound_payload(ctx, reply_text)   (worker.py:235-254)
build_outbound_payload(m) ==
    Envelope(uuid(wt[m].oid), message_id(m), <<"whatsapp">>, <<"whatsapp:+1">>,
             reply_text_of(wt[m].result))

\* Variant of WPublish: a failure of the XADD is swallowed and the pass goes on.
WPublish_swallowed(m) ==
    /\ wpc[m] = "publish"
    /\ wpc' = [wpc EXCEPT ![m] = "ack"]
    /\ \/ /\ Len(outbound) < MaxOutbound
          /\ publish_output(build_outbound_payload(m))
          /\ wt' = [wt EXCEPT ![m].published = TRUE, ![m].oid = 0, ![m].audioUrl = FALSE]
       \/ UNCHANGED <<wt, outbound>>
    /\ UNCHANGED <<inStreamVars, nextUuid, supervisor>>
    /\ UNCHANGED <<callVars, assembleVars, composeVars, toolVars, memVars, semaphore, idemVars, dLast, dPel, dAcked, dispVars>>

\* outbound_publisher.publish_output(out_payload); the envelope is not read
\* again once it is published (worker.py:504-510)
WPublish(m) ==
    /\ wpc[m] = "publish"
    /\ \/ /\ Len(outbound) < MaxOutbound
          /\ publish_output(build_outbound_payload(m))
          /\ wt' = [wt EXCEPT ![m].published = TRUE, ![m].oid = 0, ![m].audioUrl = FALSE]
          /\ wpc' = [wpc EXCEPT ![m] = "ack"]
       \/ \* the XADD fails
          /\ wpc' = [wpc EXCEPT ![m] = "failed"]
          /\ wt' = [wt EXCEPT ![m] = EndOfPass(@)]
          /\ UNCHANGED outbound
    /\ UNCHANGED <<inStreamVars, nextUuid, supervisor>>
    /\ UNCHANGED <<callVars, assembleVars, composeVars, toolVars, memVars, semaphore, idemVars, dLast, dPel, dAcked, dispVars>>

\* XACK of inbound entry m
xack_in(m) == wPel' = wPel \ {m} /\ wAcked' = wAcked \cup {m}

\* await client.xack(...)   (worker.py:523)
WAck(m) ==
    /\ wpc[m] = "ack"
    /\ \/ /\ xack_in(m)
          /\ wpc' = [wpc EXCEPT ![m] = "done"]
       \/ /\ wpc' = [wpc EXCEPT ![m] = "failed"]
          /\ UNCHANGED <<wPel, wAcked>>
    /\ wt' = [wt EXCEPT ![m] = EndOfPass(@)]
    /\ UNCHANGED <<inbound, wLast, nextUuid, supervisor>>
    /\ UNCHANGED <<callVars, assembleVars, composeVars, toolVars, memVars, semaphore, idemVars, outStreamVars, dispVars>>

-----------------------------------------------------------------------------
(* WhatsApp webhook (api/whatsapp_webhook.py, audio/media.py)               *)

\* The form fields of a request: From, Body, NumMedia (an integer, or text
\* that int() refuses), MediaUrl{i} and MediaContentType{i}; whether the
\* X-Twilio-Signature header is the valid signature of the request; and the
\* setting twilio_validate_signature.
FormMedia == [url : {<<>>, <<"https://m">>},
              ctype : {<<>>, <<SP>>, <<"audio/", "ogg">>, <<"image/", "png">>}]

RECURSIVE SeqsOf(_, _)
SeqsOf(S, n) == IF n = 0 THEN {<<>>}
                ELSE {Append(l, x) : l \in SeqsOf(S, n - 1), x \in S}

WebhookRequests(n) ==
    [From : {<<>>, <<SP>>, <<"whatsapp:+1">>, <<SP, "whatsapp:+1">>},
     Body : {<<>>, <<SP>>, <<"hi">>},
     NumMedia : [junk : {FALSE}, n : -1..n] \cup {[junk |-> TRUE, n |-> 0]},
     media : SeqsOf(FormMedia, n),
     signature_valid : BOOLEAN,
     twilio_validate_signature : BOOLEAN]

\* _safe_int(value, 0)
safe_int(v) == IF v.junk THEN 0 ELSE v.n

\* Variant of extract_media_items_from_form: every announced item is kept,
\* with or without a url and a content type.
extract_media_items_unfiltered(form) ==
    LET n == IF safe_int(form.NumMedia) > 0 THEN safe_int(form.NumMedia) ELSE 0
    IN  [i \in 1..n |-> [url |-> strip(form.media[i].url),
                         ctype |-> strip(form.media[i].ctype)]]

\* extract_media_items_from_form(form)
extract_media_items_from_form(form) ==
    LET n == IF safe_int(form.NumMedia) > 0 THEN safe_int(form.NumMedia) ELSE 0
        stripped == [i \in 1..n |-> [url |-> strip(form.media[i].url),
                                     ctype |-> strip(form.media[i].ctype)]]
    IN  SelectSeq(stripped, LAMBDA it : it.url # <<>> /\ it.ctype # <<>>)

\* build_media_metadata_from_form(form)
build_media_metadata_from_form(form) ==
    [num_media |-> Len(extract_media_items_from_form(form)),
     media |-> extract_media_items_from_form(form)]

\* What the worker will find in the entry: a text, else a voice note, else neither.
InboundKindOf(text, media_meta) ==
    IF text # <<>> THEN "text"
    ELSE IF \E i \in 1..Len(media_meta.media) : startswith(media_meta.media[i].ctype, <<"audio/">>)
         THEN "audio" ELSE "blank"

\* whatsapp_webhook(request): the whole handler.
whatsapp_webhook ==
    /\ hPhase = "input"
    /\ hPhase' = "done"
    /\ LET user_id == strip(hReq.From)
           text == strip(hReq.Body)
           media_meta == build_media_metadata_from_form(hReq)
           has_media == media_meta.num_media # 0
       IN  IF user_id = <<>> \/ (text = <<>> /\ ~has_media)
           THEN /\ hResp' = [status |-> 400]
                /\ UNCHANGED inbound
           ELSE \/ /\ inbound' = Append(inbound, [kind |-> InboundKindOf(text, media_meta)])
                   /\ hResp' = [status |-> 200]
                \/ \* the XADD raises: the exception leaves the handler
                   /\ hResp' = [status |-> 500]
                   /\ UNCHANGED inbound
    /\ UNCHANGED <<hReq, wLast, wPel, wAcked, wpc, wt, nextUuid, supervisor>>
    /\ UNCHANGED <<assembleVars, composeVars, toolVars, memVars, semaphore, idemVars, outStreamVars, dispVars>>

-----------------------------------------------------------------------------
(* Tool validation wrapper (infra/tool_validation)                          *)

POST_PAGE == "notionApi_API-post-page"

\* The keyword arguments of a tool call.  A value is known by its shape:
\*   properties  "absent", "str" (not a dict) or "dict" with
\*       title     "absent", "str", "dict" (no "title" key), "dict_title"
\*       type      "absent", "title", "other"
\*       nested    the "children" key inside properties: "absent", "blocks"
\*   children    "absent", "blocks" (list of dicts), "strings" (a list holding a str)
\*   parent      "absent", "ok": the field the tool's args_schema requires
NoProps(k) == [kind |-> k, title |-> "absent", type |-> "absent", nested |-> "absent"]

PropsShapes ==
    {NoProps("absent"), NoProps("str")}
    \cup [kind : {"dict"}, title : {"absent", "str", "dict", "dict_title"},
          type : {"absent", "title", "other"}, nested : {"absent", "blocks"}]

ToolArgs ==
    [properties : PropsShapes, children : {"absent", "blocks", "strings"},
     parent : {"absent", "ok"}]

\* One call: the wrapped tool's name, whether its args_schema is a pydantic
\* model, the kwargs, and what the inner tool does if it is invoked.
ToolCalls ==
    [tool : {POST_PAGE, "notionApi_API-post-search"},
     has_args_schema : BOOLEAN,
     kwargs : ToolArgs,
     inner : {"result", "http_400_validation_error", "raises"}]

\* NotionPostPageValidator.normalize_args / NoopValidator.normalize_args
normalize_args(tool_name, args) ==
    IF tool_name # POST_PAGE THEN args
    ELSE LET lifted ==
                 IF args.properties.kind = "dict" /\ args.properties.nested # "absent"
                    /\ args.children = "absent"
                 THEN [args EXCEPT !.children = args.properties.nested,
                                   !.properties.nested = "absent"]
                 ELSE args
         IN  IF lifted.properties.kind = "dict" /\ lifted.properties.type = "title"
             THEN [lifted EXCEPT !.properties.type = "absent"]
             ELSE lifted

NoError == [error_type |-> "none", source |-> "none"]
ValidationError(src) == [error_type |-> "validation_error", source |-> src]

\* NotionPostPageValidator.pre_validate / NoopValidator.pre_validate
pre_validate(tool_name, args) ==
    IF tool_name # POST_PAGE THEN NoError
    ELSE IF args.properties.kind # "dict" THEN ValidationError("local_semantic_validation")
    ELSE IF args.properties.title # "dict_title" THEN ValidationError("local_semantic_validation")
    ELSE IF args.children = "strings" THEN ValidationError("local_semantic_validation")
    ELSE NoError

\* schema_model.model_validate(args) does not raise: the required field is there.
model_validate(args) == args.parent = "ok"

\* Variant of validate_or_none: the schema is checked before the preflight.
validate_or_none_schema_first(tool_name, has_args_schema, args) ==
    IF has_args_schema /\ ~model_validate(args) THEN ValidationError("local_schema_validation")
    ELSE pre_validate(tool_name, args)

\* ValidatingTool._validate_or_none(args)
validate_or_none(tool_name, has_args_schema, args) ==
    IF pre_validate(tool_name, args) # NoError THEN pre_validate(tool_name, args)
    ELSE IF ~has_args_schema THEN NoError
    ELSE IF ~model_validate(args) THEN ValidationError("local_schema_validation")
    ELSE NoError

\* What a call leaves: the payload returned ("raised": none, the inner tool's
\* exception went through), and the arguments the inner tool was invoked with.
NotInvoked == [invoked |-> FALSE, args |-> NoProps("absent")]
Invoked(a) == [invoked |-> TRUE, args |-> a]

\* ValidatingTool._arun(**kwargs) (and _run, its synchronous twin)
ValidatingTool_arun ==
    /\ hPhase = "input"
    /\ hPhase' = "done"
    /\ LET norm_kwargs == normalize_args(hReq.tool, hReq.kwargs)
           maybe_err == validate_or_none(hReq.tool, hReq.has_args_schema, norm_kwargs)
       IN  hResp' =
             IF maybe_err # NoError
             THEN [returned |-> maybe_err, inner |-> NotInvoked, recorded |-> FALSE]
             ELSE IF hReq.inner = "raises"
             THEN [returned |-> [error_type |-> "raised", source |-> "inner"],
                   inner |-> Invoked(norm_kwargs), recorded |-> FALSE]
             ELSE IF hReq.inner = "http_400_validation_error"
             THEN [returned |-> ValidationError("notion_http_validation"),
                   inner |-> Invoked(norm_kwargs), recorded |-> TRUE]
             ELSE [returned |-> [error_type |-> "none", source |-> "inner"],
                   inner |-> Invoked(norm_kwargs), recorded |-> TRUE]
    /\ UNCHANGED <<hReq, workVars>>
    /\ UNCHANGED <<assembleVars, composeVars, toolVars, memVars, semaphore, idemVars, outStreamVars, dispVars>>

-----------------------------------------------------------------------------
(* Agent builder (agents/agent_creator.py)                                  *)

\* Tool names an agent definition may hold; "t3" is loaded by no server.
DefToolNames == {"t1", "t2", "t3"}
LoadableTools == {"t1", "t2"}

RECURSIVE SeqsUpTo(_, _)
SeqsUpTo(S, n) == IF n = 0 THEN {<<>>}
                  ELSE SeqsUpTo(S, n - 1) \cup {Append(l, x) : l \in SeqsOf(S, n - 1), x \in S}

\* create_agents(agent_definitions, flat_tools): the tool lists of the
\* definitions, in order, and the names of the loaded, non-blacklisted tools.
CreateAgentsCalls ==
    [agent_definitions : SeqsUpTo(SeqsUpTo(DefToolNames, MaxDefTools), MaxDefs),
     flat_tools : SUBSET LoadableTools]

\* The definitions before which no unknown tool is met: the loop raises at
\* the first tool name that is not in TOOL_REGISTRY.
FirstUnknown(defs, TOOL_REGISTRY) ==
    LET bad == {i \in 1..Len(defs) : \E j \in 1..Len(defs[i]) : defs[i][j] \notin TOOL_REGISTRY}
        i == CHOOSE x \in bad : \A y \in bad : x <= y
        js == {j \in 1..Len(defs[i]) : defs[i][j] \notin TOOL_REGISTRY}
        j == CHOOSE x \in js : \A y \in js : x <= y
    IN  IF bad = {} THEN [agent |-> 0, tool |-> "none"]
        ELSE [agent |-> i, tool |-> defs[i][j]]

NoAgentError == [agent |-> 0, tool |-> "none"]

\* The agents built from the definitions whose create_agent call did not fail.
BuiltAgents(defs, fails, toolsOf) ==
    LET idx == SeqOfSet((1..Len(defs)) \ fails)
    IN  [k \in 1..Len(idx) |-> [name |-> idx[k], tools |-> toolsOf[idx[k]]]]

\* Variant of create_agents: an unknown tool is logged and left out
\* (agents/.ipynb_checkpoints/agent_creator-checkpoint.py:73-85).
create_agents_checkpoint ==
    /\ hPhase = "input"
    /\ hPhase' = "done"
    /\ LET defs == hReq.agent_definitions
           TOOL_REGISTRY == hReq.flat_tools
       IN  \E fails \in SUBSET (1..Len(defs)) :
              hResp' = [raised |-> NoAgentError,
                        agents |-> BuiltAgents(defs, fails,
                            [i \in 1..Len(defs) |->
                                SelectSeq(defs[i], LAMBDA t : t \in TOOL_REGISTRY)])]
    /\ UNCHANGED <<hReq, workVars>>
    /\ UNCHANGED <<assembleVars, composeVars, toolVars, memVars, semaphore, idemVars, outStreamVars, dispVars>>

\* AgentCreator.create_agents: the whole call.
create_agents ==
    /\ hPhase = "input"
    /\ hPhase' = "done"
    /\ LET defs == hReq.agent_definitions
           TOOL_REGISTRY == hReq.flat_tools
       IN  IF FirstUnknown(defs, TOOL_REGISTRY) # NoAgentError
           THEN \* raise ValueError: the call returns nothing
                hResp' = [raised |-> FirstUnknown(defs, TOOL_REGISTRY), agents |-> <<>>]
           ELSE \* a create_agent call that fails is logged and its agent left out
                \E fails \in SUBSET (1..Len(defs)) :
                   hResp' = [raised |-> NoAgentError,
                             agents |-> BuiltAgents(defs, fails, defs)]
    /\ UNCHANGED <<hReq, workVars>>
    /\ UNCHANGED <<assembleVars, composeVars, toolVars, memVars, semaphore, idemVars, outStreamVars, dispVars>>

-----------------------------------------------------------------------------
(* Outbound envelope (infra/redis/worker.py:142-166, 235-301)               *)

\* JSON texts are token sequences: SP, the punctuation, literals, the quote
\* Q, the escaped quote ESCQ, and words.
Q == "\""
ESCQ == "\\\""
JsonLiterals == {"null", "true", "1"}

ParseFail == [ok |-> FALSE, rest |-> <<>>]

\* The text after the string literal s starts with, if it starts with one.
parse_string(s) ==
    IF s = <<>> \/ Head(s) # Q THEN ParseFail
    ELSE LET closing == {j \in 2..Len(s) : s[j] = Q}
         IN  IF closing = {} THEN ParseFail
             ELSE [ok |-> TRUE,
                   rest |-> SubSeq(s, (CHOOSE j \in closing : \A k \in closing : j <= k) + 1, Len(s))]

\* The text after the JSON value s starts with: a literal, a string, or an
\* object of at most one member.
RECURSIVE parse_value(_)
parse_value(s0) ==
    LET s == lstrip(s0)
    IN  IF s = <<>> THEN ParseFail
        ELSE IF Head(s) \in JsonLiterals THEN [ok |-> TRUE, rest |-> Tail(s)]
        ELSE IF Head(s) = Q THEN parse_string(s)
        ELSE IF Head(s) # "{" THEN ParseFail
        ELSE LET body == lstrip(Tail(s))
             IN  IF body # <<>> /\ Head(body) = "}" THEN [ok |-> TRUE, rest |-> Tail(body)]
                 ELSE LET key == parse_string(body)
                          colon == lstrip(key.rest)
                      IN  IF ~key.ok \/ colon = <<>> \/ Head(colon) # ":" THEN ParseFail
                          ELSE LET val == parse_value(Tail(colon))
                                   close == lstrip(val.rest)
                               IN  IF ~val.ok \/ close = <<>> \/ Head(close) # "}"
                                   THEN ParseFail
                                   ELSE [ok |-> TRUE, rest |-> Tail(close)]

\* json.loads(s) does not raise
json_loads_ok(s) == parse_value(s).ok /\ lstrip(parse_value(s).rest) = <<>>

\* Variant of json_dumps_raw: the text is quoted without escaping.
json_dumps_raw_unescaped(s) == <<"{", Q, "raw", Q, ":", SP, Q>> \o s \o <<Q, "}">>

\* json.dumps({"raw": s})
json_dumps_raw(s) ==
    <<"{", Q, "raw", Q, ":", SP, Q>>
    \o [i \in 1..Len(s) |-> IF s[i] = Q THEN ESCQ ELSE s[i]]
    \o <<Q, "}">>

\* The fields of an inbound entry the context is built from; <<>> stands for
\* a field that is absent or empty.
MetadataTexts ==
    { <<>>, <<SP>>, <<"null">>, <<"{", "}">>,
      <<"{", Q, "message_sid", Q, ":", SP, Q, "SM1", Q, "}">>,
      <<"{", "oops">>, <<Q, "a">>, <<"{", Q, "k", Q, "}">>, <<"not", SP, "json">> }

InboundPayloads ==
    [message_id : {<<>>, <<SP>>, <<"m1">>, <<SP, "m1">>},
     conversation_id : {<<>>, <<SP>>, <<"c1">>},
     metadata : MetadataTexts]

\* One envelope to build: the stream entry id, the entry's fields, the reply
\* text, and what _maybe_build_audio_reply gives when the inbound had audio.
EnvelopeCalls ==
    [stream_message_id : {<<"1-0">>},
     payload : InboundPayloads,
     reply_text : {DoneText, <<"reply">>},
     audio : {"no_audio", "fields", "none", "raises"}]

\* _build_inbound_context(stream_message_id, payload)
build_inbound_context(stream_message_id, payload) ==
    LET mid == IF strip(payload.message_id) # <<>> THEN strip(payload.message_id)
               ELSE stream_message_id
    IN  [stream_message_id |-> stream_message_id,
         metadata_json |-> payload.metadata,
         message_id |-> mid,
         conversation_id |-> IF strip(payload.conversation_id) # <<>>
                             THEN strip(payload.conversation_id) ELSE mid]

\* A field value with its Python type.
Str(s) == [type |-> "str", v |-> s]

\* _build_outbound_payload(ctx, reply_text): every field of the envelope
BaseFields ==
    {"out_id", "correlation_id", "conversation_id", "source", "user_id",
     "reply_text", "status", "timestamp"}

build_outbound_payload_fields(ctx, reply_text) ==
    LET base == [f \in BaseFields |->
                    CASE f = "out_id" -> Str(uuid(1))
                      [] f = "correlation_id" -> Str(ctx.message_id)
                      [] f = "conversation_id" -> Str(ctx.conversation_id)
                      [] f = "source" -> Str(<<"whatsapp">>)
                      [] f = "user_id" -> Str(<<"whatsapp:+1">>)
                      [] f = "reply_text" -> Str(reply_text)
                      [] f = "status" -> Str(<<"success">>)
                      [] f = "timestamp" -> Str(<<"2026-01-01T00:00:00+00:00">>)]
    IN  IF ctx.metadata_json = <<>> THEN base
        ELSE [f \in BaseFields \cup {"metadata"} |->
                 IF f # "metadata" THEN base[f]
                 ELSE IF json_loads_ok(ctx.metadata_json) THEN Str(ctx.metadata_json)
                 ELSE Str(json_dumps_raw(ctx.metadata_json))]

\* out_payload.update(audio_fields)   (worker.py:464-469)
AudioFields == {"reply_audio_url", "reply_audio_mime_type"}

with_audio_fields(out_payload) ==
    [f \in DOMAIN out_payload \cup AudioFields |->
        IF f = "reply_audio_url" THEN Str(<<"https://media/", "tts/", "a.mp3">>)
        ELSE IF f = "reply_audio_mime_type" THEN Str(<<"audio/", "mpeg">>)
        ELSE out_payload[f]]

\* The envelope the worker hands to publish_output (worker.py:409, 462-471)
BuildEnvelope ==
    /\ hPhase = "input"
    /\ hPhase' = "done"
    /\ LET ctx == build_inbound_context(hReq.stream_message_id, hReq.payload)
           out_payload == build_outbound_payload_fields(ctx, hReq.reply_text)
       IN  hResp' = IF hReq.audio = "fields" THEN with_audio_fields(out_payload)
                    ELSE out_payload
    /\ UNCHANGED <<hReq, workVars>>
    /\ UNCHANGED <<assembleVars, composeVars, toolVars, memVars, semaphore, idemVars, outStreamVars, dispVars>>

-----------------------------------------------------------------------------
(* Media route (api/media.py)                                               *)

\* A path is the sequence of its components from "/".  The file system the
\* route runs on: the media root with a file, a link that leaves the root and
\* a link that stays inside, and a file outside the root.
MEDIA_ROOT == <<"srv", "media">>

Dirs == {<<>>, <<"srv">>, MEDIA_ROOT, MEDIA_ROOT \o <<"tts">>, <<"etc">>}
Files == {MEDIA_ROOT \o <<"tts", "a.mp3">>, <<"etc", "passwd">>}
LinkPaths == {MEDIA_ROOT \o <<"out">>, MEDIA_ROOT \o <<"in">>}
LinkTarget(p) == IF p = MEDIA_ROOT \o <<"out">> THEN <<"etc">> ELSE MEDIA_ROOT \o <<"tts">>

PathComponents == {"..", ".", "tts", "a.mp3", "out", "in", "etc", "passwd", "media"}

\* rel_path as the route receives it: relative, or starting with "/".
RelPaths(n) == [absolute : BOOLEAN, comps : SeqsUpTo(PathComponents, n)]

\* root / rel_path: an absolute right operand replaces the left one.
join(root, rel_path) == IF rel_path.absolute THEN rel_path.comps ELSE root \o rel_path.comps

\* Path.resolve(): "." dropped, ".." taken from the path resolved so far,
\* links followed as they are met; components that do not exist are kept.
RECURSIVE walk(_, _)
walk(done, rest) ==
    IF rest = <<>> THEN done
    ELSE IF Head(rest) = "." THEN walk(done, Tail(rest))
    ELSE IF Head(rest) = ".."
         THEN walk(IF done = <<>> THEN <<>> ELSE SubSeq(done, 1, Len(done) - 1), Tail(rest))
    ELSE IF Append(done, Head(rest)) \in LinkPaths
         THEN walk(<<>>, LinkTarget(Append(done, Head(rest))) \o Tail(rest))
    ELSE walk(Append(done, Head(rest)), Tail(rest))

resolve(p) == walk(<<>>, p)

\* Path.parents
parents(p) == {SubSeq(p, 1, k) : k \in 0..(Len(p) - 1)}

HTTP(status) == [status |-> status, served |-> <<"nothing">>]

\* Variant of safe_resolve_under_root: the root is looked for in the parents
\* of the path as it was joined, before it is resolved.
safe_resolve_unresolved(root, rel_path) ==
    IF root = join(root, rel_path) \/ root \in parents(join(root, rel_path))
    THEN [ok |-> TRUE, path |-> resolve(join(root, rel_path))]
    ELSE [ok |-> FALSE, path |-> <<>>]

\* _safe_resolve_under_root(root, rel_path); ok FALSE: HTTPException 400
safe_resolve_under_root(root, rel_path) ==
    LET candidate == resolve(join(root, rel_path))
        root_resolved == resolve(root)
    IN  IF root_resolved = candidate \/ root_resolved \in parents(candidate)
        THEN [ok |-> TRUE, path |-> candidate]
        ELSE [ok |-> FALSE, path |-> <<>>]

\* get_media(rel_path): the whole handler.
get_media ==
    /\ hPhase = "input"
    /\ hPhase' = "done"
    /\ LET safe == safe_resolve_under_root(MEDIA_ROOT, hReq)
       IN  hResp' = IF ~safe.ok THEN HTTP(400)
                    ELSE IF safe.path \notin Dirs \cup Files \/ safe.path \notin Files
                    THEN HTTP(404)
                    ELSE [status |-> 200, served |-> safe.path]
    /\ UNCHANGED <<hReq, workVars>>
    /\ UNCHANGED <<assembleVars, composeVars, toolVars, memVars, semaphore, idemVars, outStreamVars, dispVars>>

-----------------------------------------------------------------------------
(* Bootstrap: tool loading and agent building (infra/redis/bootstrap.py)     *)

\* The servers and the tools each one offers; names carry the server's
\* prefix.  "localAudio" is the bucket of the local tools.
McpServerTools == {"notionApi_search", "notionApi_delete"}
LocalServerTools == {"localAudio_tts"}
AllServerTools == McpServerTools \cup LocalServerTools

\* One bootstrap: the blacklist of each server in server_agent_map.json, and
\* the definitions the categorisation comes back with.
Bootstraps ==
    [blacklist_mcp : SUBSET McpServerTools,
     blacklist_local : SUBSET LocalServerTools,
     agent_definitions : SeqsUpTo(SeqsUpTo(AllServerTools, MaxDefTools), MaxDefs)]

\* load_mcp_tools(mcp_client, blacklist_by_server): the names kept
load_mcp_tools(bl) == {t \in McpServerTools : t \notin bl}

\* Variant of load_local_tools: the blacklist is not looked at.
load_local_tools_unfiltered(bl) == LocalServerTools

\* load_local_tools(blacklist_by_server): the names kept
load_local_tools(bl) == {t \in LocalServerTools : t \notin bl}

\* bootstrap_supervisor, steps 0 to 4: blacklists, tools, definitions, agents.
\* build_agents returns no agent when there is no definition or no tool.
bootstrap_agents ==
    /\ hPhase = "input"
    /\ hPhase' = "done"
    /\ LET flat_tools == load_mcp_tools(hReq.blacklist_mcp)
                         \cup load_local_tools(hReq.blacklist_local)
           defs == hReq.agent_definitions
       IN  IF defs = <<>> \/ flat_tools = {}
           THEN hResp' = [registry |-> flat_tools, raised |-> NoAgentError, agents |-> <<>>]
           ELSE IF FirstUnknown(defs, flat_tools) # NoAgentError
           THEN hResp' = [registry |-> flat_tools,
                          raised |-> FirstUnknown(defs, flat_tools), agents |-> <<>>]
           ELSE \E fails \in SUBSET (1..Len(defs)) :
                   hResp' = [registry |-> flat_tools, raised |-> NoAgentError,
                             agents |-> BuiltAgents(defs, fails, defs)]
    /\ UNCHANGED <<hReq, workVars>>
    /\ UNCHANGED <<assembleVars, composeVars, toolVars, memVars, semaphore, idemVars, outStreamVars, dispVars>>

-----------------------------------------------------------------------------
(* Tool runtime: what a wrapped tool does once its arguments passed         *)
(* validation (infra/tool_validation/wrapper.py:146-154), the provider      *)
(* error normalisation (infra/tool_validation/notion_http.py) and the       *)
(* grounding collector (infra/tool_execution_tracker.py:24-142).            *)

\* A JSON object a tool may return, by the keys the code looks at.  "absent"
\* and 0 stand for a missing key; repeat_count is set by the normalisation only.
Payloads ==
    [error_type : {"absent", "validation_error"},
     object : {"absent", "error"},
     error : {"absent", "text"},
     status : {0, 200, 399, 400, 404},
     status_code : {0, 500},
     code : {"absent", "validation_error", "object_not_found"},
     message : {"absent", "m1", "m2"},
     repeat_count : {0}]

NoPayload ==
    [error_type |-> "absent", object |-> "absent", error |-> "absent", status |-> 0,
     status_code |-> 0, code |-> "absent", message |-> "absent", repeat_count |-> 0]

\* A text: blank, not JSON, a JSON array, or a JSON object.
Texts(P) ==
    [kind : {"blank", "plain", "json_array"}, obj : {NoPayload}]
    \cup [kind : {"json_object"}, obj : P]

\* What the inner tool gives back: None, a string, a list of text parts (an
\* empty list has no part), a dict, or an exception.
NoText == [kind |-> "blank", obj |-> NoPayload]
ToolResultsOver(P) ==
    {[shape |-> "none", text |-> NoText], [shape |-> "raises", text |-> NoText],
     [shape |-> "empty_list", text |-> NoText]}
    \cup [shape : {"str", "parts"}, text : Texts(P)]
    \cup [shape : {"dict"}, text : [kind : {"json_object"}, obj : P]]

\* The names of two wrapped tools
ToolNames == {<<"notionApi_", "API-post-page">>, <<"notionApi_", "API-post-search">>}

REPEAT_WINDOW_S == 60

RepeatKeys == ToolNames \X {"", "m1", "m2"}

NoRepeats == [k \in RepeatKeys |-> [count |-> 0, last_seen_ts |-> 0]]

\* maybe_extract_json_text(result); NoText stands for None and for ""
maybe_extract_json_text(result) ==
    IF result.shape \in {"str", "parts"} THEN result.text ELSE NoText

\* data = json.loads(txt) is a dict with status 400 and code validation_error
is_notion_validation_error(result) ==
    LET txt == maybe_extract_json_text(result)
    IN  /\ txt.kind = "json_object"
        /\ txt.obj.status = 400 /\ txt.obj.code = "validation_error"

\* key = (tool_name, str(data.get("message") or ""))
repeat_key(tool_name, result) ==
    LET m == maybe_extract_json_text(result).obj.message
    IN  <<tool_name, IF m = "absent" THEN "" ELSE m>>

\* A repeat counter that restarts only after the window has fully passed is
\* replaced by one that never looks at the clock.
next_repeat_count_ignoring_window(prev, t) == prev.count + 1

\* notion_http.py:56-60
next_repeat_count(prev, t) ==
    IF prev.count # 0 /\ t - prev.last_seen_ts <= REPEAT_WINDOW_S THEN prev.count + 1 ELSE 1

\* normalize_notion_http_validation_error(tool_name, result), given the
\* module's repeat table and time.time(): the payload returned (normalized is
\* FALSE for None) and the table afterwards.
normalize_notion_http_validation_error(tool_name, result, table, t) ==
    IF ~is_notion_validation_error(result)
    THEN [normalized |-> FALSE, payload |-> result, table |-> table]
    ELSE LET key == repeat_key(tool_name, result)
             count == next_repeat_count(table[key], t)
         IN  [normalized |-> TRUE,
              payload |-> [shape |-> "str",
                           text |-> [kind |-> "json_object",
                                     obj |-> [error_type |-> "validation_error",
                                              object |-> "absent", error |-> "absent",
                                              status |-> 0, status_code |-> 0,
                                              code |-> "absent", message |-> key[2],
                                              repeat_count |-> count]]],
              table |-> [table EXCEPT ![key] = [count |-> count, last_seen_ts |-> t]]]

\* The three tests shared by the string and the dict branch
\* (tool_execution_tracker.py:90-95, 99-104)
has_error_keys(obj) ==
    obj.error_type # "absent" \/ obj.object = "error" \/ obj.error # "absent"

\* _result_is_error_like(result)
result_is_error_like(result) ==
    CASE result.shape = "none" -> TRUE
      [] result.shape = "str" ->
            IF result.text.kind = "blank" THEN TRUE
            ELSE IF result.text.kind # "json_object" THEN FALSE
            ELSE has_error_keys(result.text.obj)
      [] result.shape = "dict" ->
            \/ has_error_keys(result.text.obj)
            \/ LET status == IF result.text.obj.status # 0 THEN result.text.obj.status
                             ELSE result.text.obj.status_code
               IN  status >= 400
      [] OTHER -> FALSE

\* asyncio tasks: the consume loop, the _process_with_limit task of each of
\* two inbound entries, and a sub-task each supervisor run may spawn.
Loop == "loop"
MsgTasks == {"A", "B"}
sub(m) == m \o "/1"
SubTasks == {sub(m) : m \in MsgTasks}
TaskIds == {Loop} \cup MsgTasks \cup SubTasks

\* _collector_var.get() is None
NoCollector == 0

NewTask(pc) == [pc |-> pc, collector |-> NoCollector, began |-> 0, gated |-> 0, seen |-> <<>>]

\* A process-wide variant of reset_tool_events: one collector for every context.
reset_tool_events_process_wide(tk, cols, t) ==
    [tasks |-> [x \in DOMAIN tk |-> [tk[x] EXCEPT !.collector = Len(cols) + 1]],
     collectors |-> Append(cols, <<>>)]

\* reset_tool_events(), called in the context of task t
reset_tool_events(tk, cols, t) ==
    [tasks |-> [tk EXCEPT ![t].collector = Len(cols) + 1],
     collectors |-> Append(cols, <<>>)]

\* _get_collector(), called in the context of task t
get_collector(tk, cols, t) ==
    IF tk[t].collector = NoCollector
    THEN [tasks |-> [tk EXCEPT ![t].collector = Len(cols) + 1],
          collectors |-> Append(cols, <<>>), col |-> Len(cols) + 1]
    ELSE [tasks |-> tk, collectors |-> cols, col |-> tk[t].collector]

\* record_tool_event(name=..., ok=...), called in the context of task t
record_tool_event(tk, cols, t, ev) ==
    LET g == get_collector(tk, cols, t)
    IN  [tasks |-> g.tasks,
         collectors |-> [g.collectors EXCEPT ![g.col] = Append(@, ev)]]

\* snapshot_tool_events(), called in the context of task t
snapshot_tool_events(tk, cols, t) ==
    LET g == get_collector(tk, cols, t) IN g.collectors[g.col]

\* The task may be running a tool: a supervisor run, or a sub-task of one.
RunsTools(t) == tasks[t].pc \in {"supervising", "running"}

\* ValidatingTool._arun from the inner call on (wrapper.py:146-154), in task
\* t: the arguments passed validation and the inner tool gives `result`.
ValidatingTool_arun_invoke(t, name, result) ==
    /\ RunsTools(t)
    /\ IF result.shape = "raises"
       THEN /\ toolCalls' = Append(toolCalls,
                   [task |-> t, name |-> name, result |-> result, returned |-> result,
                    at |-> now, recorded |-> <<>>])
            /\ UNCHANGED <<tasks, collectors, notionRepeat>>
       ELSE LET n == normalize_notion_http_validation_error(name, result, notionRepeat, now)
                ev == [name |-> name, ok |-> ~result_is_error_like(n.payload),
                       call |-> Len(toolCalls) + 1]
                r == record_tool_event(tasks, collectors, t, ev)
            IN  /\ notionRepeat' = n.table
                /\ tasks' = r.tasks
                /\ collectors' = r.collectors
                /\ toolCalls' = Append(toolCalls,
                       [task |-> t, name |-> name, result |-> result, returned |-> n.payload,
                        at |-> now, recorded |-> <<ev>>])
    /\ UNCHANGED <<callVars, workVars, assembleVars, composeVars, idemVars, outStreamVars,
                   dispVars, memVars, semaphore>>

\* asyncio.create_task(self._process_with_limit(...)) (worker.py:391): the new
\* task runs in a copy of the consume loop's context.
CreateTask(m) ==
    /\ tasks[m].pc = "unscheduled"
    /\ tasks' = [tasks EXCEPT ![m].pc = "pre",
                              ![m].collector = tasks[Loop].collector,
                              ![m].began = Len(toolCalls)]
    /\ UNCHANGED <<collectors, toolCalls, notionRepeat>>
    /\ UNCHANGED <<callVars, workVars, assembleVars, composeVars, idemVars, outStreamVars,
                   dispVars, memVars, semaphore>>

\* worker.py:438-441: no immediate reply, reset_tool_events() before the
\* supervisor is invoked
ResetToolEvents(m) ==
    /\ tasks[m].pc = "pre"
    /\ LET r == reset_tool_events(tasks, collectors, m)
       IN  /\ tasks' = [r.tasks EXCEPT ![m].pc = "supervising"]
           /\ collectors' = r.collectors
    /\ UNCHANGED <<toolCalls, notionRepeat>>
    /\ UNCHANGED <<callVars, workVars, assembleVars, composeVars, idemVars, outStreamVars,
                   dispVars, memVars, semaphore>>

\* worker.py:421-438: an immediate reply, the supervisor is not invoked
ImmediateReplyPass(m) ==
    /\ tasks[m].pc = "pre"
    /\ tasks' = [tasks EXCEPT ![m].pc = "gate"]
    /\ UNCHANGED <<collectors, toolCalls, notionRepeat>>
    /\ UNCHANGED <<callVars, workVars, assembleVars, composeVars, idemVars, outStreamVars,
                   dispVars, memVars, semaphore>>

\* A sub-task created during the supervisor run (a tool node running its
\* calls as tasks): it runs in a copy of the context of the task creating it.
SpawnSubTask(m) ==
    /\ tasks[m].pc = "supervising"
    /\ tasks[sub(m)].pc = "unspawned"
    /\ tasks' = [tasks EXCEPT ![sub(m)].pc = "running",
                              ![sub(m)].collector = tasks[m].collector,
                              ![sub(m)].began = Len(toolCalls)]
    /\ UNCHANGED <<collectors, toolCalls, notionRepeat>>
    /\ UNCHANGED <<callVars, workVars, assembleVars, composeVars, idemVars, outStreamVars,
                   dispVars, memVars, semaphore>>

\* _invoke_supervisor returns (worker.py:454)
SupervisorReturns(m) ==
    /\ tasks[m].pc = "supervising"
    /\ tasks' = [tasks EXCEPT ![m].pc = "gate"]
    /\ UNCHANGED <<collectors, toolCalls, notionRepeat>>
    /\ UNCHANGED <<callVars, workVars, assembleVars, composeVars, idemVars, outStreamVars,
                   dispVars, memVars, semaphore>>

\* grounded = any_grounded_success(count_local_audio=False) (worker.py:477):
\* the gate reads the collector of its own context.
GroundingGate(m) ==
    /\ tasks[m].pc = "gate"
    /\ LET g == get_collector(tasks, collectors, m)
       IN  /\ tasks' = [g.tasks EXCEPT ![m].pc = "done",
                                       ![m].gated = Len(toolCalls),
                                       ![m].seen = snapshot_tool_events(tasks, collectors, m)]
           /\ collectors' = g.collectors
    /\ UNCHANGED <<toolCalls, notionRepeat>>
    /\ UNCHANGED <<callVars, workVars, assembleVars, composeVars, idemVars, outStreamVars,
                   dispVars, memVars, semaphore>>

\* The clock moves on by half a repeat window.
RepeatTick ==
    /\ now + REPEAT_WINDOW_S \div 2 <= MaxRepeatTicks * (REPEAT_WINDOW_S \div 2)
    /\ now' = now + REPEAT_WINDOW_S \div 2
    /\ UNCHANGED <<sentKeys, lastMark>>
    /\ UNCHANGED <<callVars, workVars, assembleVars, composeVars, outStreamVars, dispVars,
                   toolVars, memVars, semaphore>>

\* A tool result the provider made of a request it accepted
OkResult == [shape |-> "dict", text |-> [kind |-> "json_object", obj |-> NoPayload]]

\* The provider's HTTP 400 validation_error, as the MCP adapter hands it on
NotionValidationError(msg) ==
    [shape |-> "parts",
     text |-> [kind |-> "json_object",
               obj |-> [NoPayload EXCEPT !.object = "error", !.status = 400,
                                         !.code = "validation_error", !.message = msg]]]

-----------------------------------------------------------------------------
(* Memory store (infra/redis/memory_store.py): the per-user event list       *)

Users == {"u1", "u2"}

\* Values the setting memory_user_events_max_items may hold; 15 is what
\* getattr(settings, ..., 15) gives when it is not set.
MaxItemsSettings == {-3, 0, 1, 2, 15, 250}

Min2(a, b) == IF a < b THEN a ELSE b
Max2(a, b) == IF a > b THEN a ELSE b

\* memory_store.py:64-65, 121-122
max_items(setting) ==
    LET v == IF setting = 0 THEN 15 ELSE setting
    IN  Max2(1, Min2(v, 200))

\* json.dumps(event) of the event with the n-th event_id, and json.loads of a
\* list item (0: not a JSON object)
event_payload(n) == <<"{", n, "}">>
parse_event(item) ==
    IF Len(item) = 3 /\ item[1] = "{" /\ item[3] = "}" THEN item[2] ELSE 0

\* RPUSH key value: the value goes to the tail
rpush(list, value) == Append(list, value)

\* LPUSH key value
lpush(list, value) == <<value>> \o list

\* LRANGE / LTRIM key start stop, for 0 <= start and 0 <= stop
lrange(list, start, stop) == SubSeq(list, start + 1, Min2(stop + 1, Len(list)))
ltrim(list, start, stop) == lrange(list, start, stop)

\* The events appended before the run: none, or a list already full.
EarlierEvents(user, n) == [i \in 1..n |-> [user |-> user, earlier |-> TRUE]]
NewestFirst(n) == [j \in 1..n |-> event_payload(n + 1 - j)]

AppendsInRun == Cardinality({i \in 1..Len(appended) : ~appended[i].earlier})

\* RedisMemoryStore.append_user_event(user_id=..., event=...): LPUSH and LTRIM
\* go in one MULTI/EXEC pipeline.
append_user_event(user_id) ==
    /\ AppendsInRun < MaxAppends
    /\ LET event_id == Len(appended) + 1
           key == user_id
       IN  /\ userEvents' =
                 [userEvents EXCEPT ![key] =
                     ltrim(lpush(@, event_payload(event_id)), 0,
                           max_items(memory_user_events_max_items) - 1)]
           /\ appended' = Append(appended, [user |-> user_id, earlier |-> FALSE])
    /\ UNCHANGED memory_user_events_max_items
    /\ UNCHANGED <<callVars, workVars, assembleVars, composeVars, idemVars, outStreamVars,
                   dispVars, toolVars, semaphore>>

\* RedisMemoryStore.get_context(user_id=..., ...): its recent_events
get_context(user_id) ==
    /\ hPhase' = "done"
    /\ UNCHANGED hReq
    /\ LET raw_events == lrange(userEvents[user_id], 0,
                                max_items(memory_user_events_max_items) - 1)
           parsed == [i \in 1..Len(raw_events) |-> parse_event(raw_events[i])]
       IN  hResp' = [user_id |-> user_id,
                     recent_events |-> SelectSeq(parsed, LAMBDA e : e # 0),
                     after |-> Len(appended)]
    /\ UNCHANGED <<workVars, assembleVars, composeVars, idemVars, outStreamVars,
                   dispVars, toolVars, memVars, semaphore>>

-----------------------------------------------------------------------------
(* Memory store (infra/redis/memory_store.py): document upserts              *)

\* The keys of a memory document the upserts or the patches may touch;
\* "absent" stands for a missing key.
DocFields == {"schema", "user_id", "conversation_id", "created_at", "updated_at",
              "last_status", "note"}

EmptyDoc == [f \in DocFields |-> "absent"]

\* Documents a key may hold from earlier writes
ExistingDocs ==
    {[f \in DocFields |->
        CASE f = "schema" -> d[1] [] f = "created_at" -> d[2] [] f = "user_id" -> d[3]
          [] f = "conversation_id" -> d[4] [] f = "updated_at" -> d[5]
          [] f = "last_status" -> d[6] [] OTHER -> d[7]]
     : d \in {"absent", "", "old_schema"} \X {"absent", "", "t0"} \X {"absent", "u1"}
             \X {"absent", "c1"} \X {"absent", "t0"} \X {"absent", "failed"} \X {"absent", "kept"}}

\* What GET gives: nothing, text that is not a JSON object, or a document
ExistingRaws ==
    {[kind |-> k, doc |-> EmptyDoc] : k \in {"missing", "blank", "not_json", "json_array"}}
    \cup {[kind |-> "json_object", doc |-> d] : d \in ExistingDocs}

\* Patches: any of these keys, each with a value of the caller's
Patches ==
    {[f \in DocFields |-> IF f \in S THEN "patched" ELSE "absent"]
     : S \in SUBSET {"schema", "user_id", "conversation_id", "created_at", "updated_at",
                     "last_status"}}

UpsertCalls ==
    [kind : {"user_profile", "conversation_state"}, user_id : {"u1"}, conversation_id : {"c1"},
     existing_raw : ExistingRaws, patch : Patches, now_iso : {"t1"}]

\* {**a, **b}
dict_merge(a, b) == [f \in DocFields |-> IF b[f] # "absent" THEN b[f] ELSE a[f]]

\* existing.get(key) or default
get_or(existing, key, default) ==
    IF existing[key] \in {"absent", ""} THEN default ELSE existing[key]

\* memory_store.py:148-156 / 187-195
parse_existing(existing_raw) ==
    IF existing_raw.kind = "json_object" THEN existing_raw.doc ELSE EmptyDoc

\* base (memory_store.py:158-162 / 197-202)
base_fields(kind, req, existing) ==
    [f \in DocFields |->
        CASE f = "schema" ->
                get_or(existing, "schema",
                       IF kind = "user_profile" THEN "user_profile_v1"
                       ELSE "conversation_state_v1")
          [] f = "user_id" -> req.user_id
          [] f = "conversation_id" ->
                IF kind = "conversation_state" THEN req.conversation_id ELSE "absent"
          [] f = "created_at" -> get_or(existing, "created_at", req.now_iso)
          [] OTHER -> "absent"]

\* merged = {**existing, **base, **patch, "updated_at": _now_iso()}
merged_document(req) ==
    LET existing == parse_existing(req.existing_raw)
        base == base_fields(req.kind, req, existing)
    IN  [dict_merge(dict_merge(existing, base), req.patch) EXCEPT !["updated_at"] = req.now_iso]

\* RedisMemoryStore.upsert_user_profile / upsert_conversation_state
upsert ==
    /\ hPhase = "input"
    /\ hPhase' = "done"
    /\ hResp' = [merged |-> merged_document(hReq), stored |-> merged_document(hReq)]
    /\ UNCHANGED hReq
    /\ UNCHANGED <<workVars, assembleVars, composeVars, idemVars, outStreamVars,
                   dispVars, toolVars, memVars, semaphore>>

-----------------------------------------------------------------------------
(* Concurrency limit: _process_with_limit of the worker (worker.py:393-398)  *)
(* and of the dispatcher (outbound_dispatcher.py:96-98)                      *)

\* The tasks the consume loop creates, one per entry read
Scheduled == 1..MaxScheduled

\* The tasks inside _process_message / _process_one
InsideLimit == {t \in Scheduled : tasks[t].pc = "inside"}

\* A semaphore whose slot is given back only when the body returns.
release_unless_raised(value, raised) == IF raised THEN value ELSE value + 1

\* Semaphore.__aexit__: release(), whether or not the body raised
release(value, raised) == value + 1

\* asyncio.create_task(self._process_with_limit(...)) for an entry read
ScheduleTask(t) ==
    /\ tasks[t].pc = "unscheduled"
    /\ tasks' = [tasks EXCEPT ![t].pc = "waiting"]
    /\ UNCHANGED <<semaphore, collectors, toolCalls, notionRepeat>>
    /\ UNCHANGED <<callVars, workVars, assembleVars, composeVars, idemVars, outStreamVars,
                   dispVars, memVars>>

\* async with self.semaphore: a slot is taken when one is left
EnterLimit(t) ==
    /\ tasks[t].pc = "waiting"
    /\ semaphore > 0
    /\ semaphore' = semaphore - 1
    /\ tasks' = [tasks EXCEPT ![t].pc = "inside"]
    /\ UNCHANGED <<collectors, toolCalls, notionRepeat>>
    /\ UNCHANGED <<callVars, workVars, assembleVars, composeVars, idemVars, outStreamVars,
                   dispVars, memVars>>

\* _process_message / _process_one returns or raises, and the async with
\* block is left
LeaveLimit(t) ==
    /\ tasks[t].pc = "inside"
    /\ \E raised \in BOOLEAN :
          /\ semaphore' = release(semaphore, raised)
          /\ tasks' = [tasks EXCEPT ![t].pc = IF raised THEN "raised" ELSE "done"]
    /\ UNCHANGED <<collectors, toolCalls, notionRepeat>>
    /\ UNCHANGED <<callVars, workVars, assembleVars, composeVars, idemVars, outStreamVars,
                   dispVars, memVars>>

-----------------------------------------------------------------------------
(* Consumer group at start (worker.py:326-372, outbound_dispatcher.py:47-79) *)

\* The messages of the exceptions XGROUP CREATE may raise, as words; <<>>: OK.
\* BusyGroup is the store's answer when the group exists; the others are
\* failures of the store or of the connection.
BusyGroup == <<"BUSYGROUP", "Consumer", "Group", "name", "already", "exists">>

StoreFaults == {<<"Connection", "refused">>, <<"NOAUTH", "Authentication", "required">>}

\* "BUSYGROUP" in str(exc)
Contains(word, s) == \E i \in 1..Len(s) : s[i] = word

\* client.xgroup_create(name, groupname, id="0-0", mkstream=True): the
\* exception raised, <<>> when the group was created.
xgroup_create(exists, fault) ==
    IF fault # <<>> THEN fault ELSE IF exists THEN BusyGroup ELSE <<>>

\* Variant of ensure_consumer_group: every exception is raised again.
ensure_consumer_group_reraising(exc) ==
    IF exc = <<>> THEN "created" ELSE "raise"

\* _ensure_consumer_group, by the exception of xgroup_create: the group was
\* created, it exists already (BUSYGROUP is swallowed), or the exception is
\* raised again.
ensure_consumer_group(exc) ==
    IF exc = <<>> THEN "created"
    ELSE IF Contains("BUSYGROUP", exc) THEN "exists"
    ELSE "raise"

Processes == {"worker", "dispatcher"}

\* The pending entries and the last-delivered position of the process's group
Pending(who) == IF who = "worker" THEN wPel ELSE dPel
LastDelivered(who) == IF who = "worker" THEN wLast ELSE dLast

\* start() up to the consume loop: get_client, _ensure_consumer_group, the
\* log line.  hPhase is the position of the process: "input" launched,
\* "consuming" in the while loop, "raised" ended by an exception of start().
\* hResp keeps what the group looked like when start() was called.
start(who) ==
    /\ hPhase = "input"
    /\ hReq.who = who
    /\ \E fault \in {<<>>} \cup StoreFaults :
          LET exc == xgroup_create(hReq.group, fault)
              r == ensure_consumer_group(exc)
          IN  /\ hPhase' = IF r = "raise" THEN "raised" ELSE "consuming"
              /\ hReq' = [hReq EXCEPT !.group = hReq.group \/ exc = <<>>]
              /\ hResp' = [exc |-> exc, existed |-> hReq.group,
                           pending |-> Pending(who), last |-> LastDelivered(who)]
    /\ UNCHANGED <<workVars, assembleVars, composeVars, toolVars, memVars, semaphore,
                   idemVars, outStreamVars, dispVars>>

\* One turn of start()'s while loop
start_consume_once(who) ==
    /\ hPhase = "consuming"
    /\ hReq.who = who
    /\ IF who = "worker" THEN WConsumeOnce ELSE DConsumeOnce

\* The process ends (or has ended through start()) and is launched again: its
\* tasks under way are gone, the stream and the group stay in the store.
ProcessRelaunch ==
    /\ hPhase \in {"consuming", "raised"}
    /\ hPhase' = "input"
    /\ wpc' = [m \in 1..MaxInbound |->
                 IF wpc[m] \in WInside \cup {"sched"} THEN "crashed" ELSE wpc[m]]
    /\ wt' = [m \in 1..MaxInbound |->
                 IF wpc[m] \in WInside \cup {"sched"} THEN EndOfPass(wt[m]) ELSE wt[m]]
    /\ dpc' = [e \in 1..MaxOutbound |->
                 IF dpc[e] \in DInside \cup {"sched"} THEN "raised" ELSE dpc[e]]
    /\ UNCHANGED <<hReq, hResp, inStreamVars, nextUuid, supervisor, dt, sendCount,
                   dRedelivered, raced>>
    /\ UNCHANGED <<assembleVars, composeVars, toolVars, memVars, semaphore, idemVars,
                   outStreamVars>>

-----------------------------------------------------------------------------
(* Pre-supervisor preprocessing (runtime/pre_supervisor.py)                 *)

\* A key the payload of the detect-and-translate tool does not hold
Absent == <<"<absent>">>

\* payload.get(key) or ""
get_or_empty(v) == IF v = Absent THEN <<>> ELSE v

\* str.lower() of a language name
LowerLanguage(t) ==
    CASE t = "English" -> "english"
      [] t = "EN" -> "en"
      [] t = "en-US" -> "en-us"
      [] t = "Hindi" -> "hindi"
      [] OTHER -> t

lower_language(s) == [i \in 1..Len(s) |-> LowerLanguage(s[i])]

EnglishNames == {<<"english">>, <<"en">>, <<"en-us">>, <<"en-gb">>}

\* What localAudio_detect_and_translate_to_english.ainvoke does: it raises
\* (the model call fails, or the structured output is not what model_dump
\* is called on), it returns a dict, or it returns something else.
DetectOutcomes ==
    {[kind |-> k, detected_language |-> <<>>, english_text |-> <<>>] : k \in {"raises", "other"}}
    \cup [kind : {"dict"},
          detected_language : {Absent, <<>>, <<"English">>, <<SP, "en-US">>, <<"EN">>, <<"Hindi">>},
          english_text : {Absent, <<>>, <<"hello", SP>>}]

\* _detect_language_and_english_text(text), once ainvoke has returned payload
detect_language_and_english_text(payload, text) ==
    IF payload.kind = "dict"
    THEN LET detected == strip(get_or_empty(payload.detected_language))
         IN  [detected |-> detected,
              english |-> strip(get_or_empty(payload.english_text)),
              is_english |-> lower_language(detected) \in EnglishNames]
    ELSE [detected |-> <<"English">>, english |-> text, is_english |-> TRUE]

\* The calls of prepare_for_supervisor: ctx.text, the audio media of the
\* metadata with what transcribe_twilio_audio does with it ("none": no audio
\* media), and what the detect-and-translate tool does.
PrepareCalls ==
    [text : {<<>>, <<SP>>, <<"hola">>, <<SP, "hello", SP>>},
     audio : {"none", "transcript", "empty", "raises"},
     detect : DetectOutcomes]

NoPreSupervisorResult ==
    [raised |-> FALSE, supervisor_input |-> <<>>, original_text |-> <<>>,
     english_text |-> <<>>, detected_language |-> <<>>, is_english |-> FALSE,
     inbound_has_audio |-> FALSE, immediate_reply |-> <<>>]

\* _build_supervisor_envelope: the fields that depend on the preprocessing
build_supervisor_envelope(original_text, english_text, detected_language, is_english, inbound_has_audio) ==
    [schema |-> <<"inbound_envelope_v1">>,
     original_text |-> original_text,
     english_text |-> english_text,
     detected_language |-> detected_language,
     is_english |-> is_english,
     requires_translation_to_english |-> ~is_english,
     inbound_has_audio |-> inbound_has_audio,
     reply_in_audio |-> inbound_has_audio]

\* prepare_for_supervisor(ctx, metadata); an exception of the transcription
\* or of the tool leaves the function (raised).
prepare_for_supervisor ==
    /\ hPhase = "input"
    /\ hPhase' = "done"
    /\ LET inbound_has_audio == hReq.audio # "none"
           text0 == strip(hReq.text)
           transcribes == text0 = <<>> /\ inbound_has_audio
           text == IF transcribes
                   THEN (IF hReq.audio = "transcript" THEN strip(<<SP, "hola">>) ELSE <<>>)
                   ELSE text0
           t == detect_language_and_english_text(hReq.detect, text)
           english_text == strip(IF t.english # <<>> THEN t.english ELSE text)
       IN  hResp' =
             IF transcribes /\ hReq.audio = "raises"
             THEN [NoPreSupervisorResult EXCEPT !.raised = TRUE]
             ELSE IF text = <<>>
             THEN [NoPreSupervisorResult EXCEPT
                     !.is_english = TRUE,
                     !.inbound_has_audio = inbound_has_audio,
                     !.immediate_reply = ImmediateReply.text]
             ELSE IF hReq.detect.kind = "raises"
             THEN [NoPreSupervisorResult EXCEPT !.raised = TRUE]
             ELSE [raised |-> FALSE,
                   supervisor_input |->
                       build_supervisor_envelope(text, english_text, t.detected,
                                                 t.is_english, inbound_has_audio),
                   original_text |-> text,
                   english_text |-> english_text,
                   detected_language |-> t.detected,
                   is_english |-> t.is_english,
                   inbound_has_audio |-> inbound_has_audio,
                   immediate_reply |-> <<>>]
    /\ UNCHANGED hReq
    /\ UNCHANGED <<workVars, assembleVars, composeVars, toolVars, memVars, semaphore,
                   idemVars, outStreamVars, dispVars>>

-----------------------------------------------------------------------------
(* Audio reply (worker.py:257-301, 462-540)                                  *)

\* What localAudio_text_to_speech.ainvoke does: it raises (no API key, the
\* request fails), it returns the text of a ToolException (handle_tool_error),
\* or it returns a dict.
TtsOutcomes ==
    {[kind |-> k, file_path |-> Absent, format |-> Absent] : k \in {"raises", "tool_error"}}
    \cup [kind : {"dict"},
          file_path : {Absent, <<SP>>, <<"/tmp/", "tts-1/", "speech.mp3">>},
          format : {Absent, <<"mp3">>, <<"WAV", SP>>}]

\* One reply to send: whether the inbound had audio, the setting
\* reply_with_audio_when_inbound_has_audio, what the text-to-speech tool and
\* shutil.copy2 do, and settings.media_public_base_url.
AudioReplyCalls ==
    [inbound_has_audio : BOOLEAN,
     reply_with_audio_when_inbound_has_audio : BOOLEAN,
     tts : TtsOutcomes,
     copy : {"ok", "raises"},
     media_public_base_url : {<<>>, <<"https://host", "/">>}]

\* settings.tts_format
tts_format == <<"mp3">>

\* guess_mime_type_from_audio_format(fmt)
guess_mime_type_from_audio_format(fmt) ==
    LET fmt_l == strip([i \in 1..Len(fmt) |-> IF fmt[i] = "WAV" THEN "wav" ELSE fmt[i]])
    IN  CASE fmt_l = <<"mp3">> -> <<"audio/", "mpeg">>
          [] fmt_l = <<"wav">> -> <<"audio/", "wav">>
          [] fmt_l = <<"ogg">> -> <<"audio/", "ogg">>
          [] fmt_l = <<"m4a">> -> <<"audio/", "mp4">>
          [] OTHER -> <<"application/", "octet-stream">>

\* str.rstrip("/")
RECURSIVE rstrip_slash(_)
rstrip_slash(s) ==
    IF s # <<>> /\ s[Len(s)] = "/" THEN rstrip_slash(SubSeq(s, 1, Len(s) - 1)) ELSE s

\* build_public_media_url(rel_path): <<>> for None
build_public_media_url(base_url, rel_path) ==
    LET base == rstrip_slash(strip(base_url))
    IN  IF base = <<>> THEN <<>> ELSE base \o <<"/media/">> \o rel_path

\* No audio fields (None)
NoAudioFields == [raised |-> FALSE, fields |-> <<>>]

\* _maybe_build_audio_reply(reply_text): the fields to add, none, or an
\* exception (raised).
maybe_build_audio_reply(call) ==
    IF ~call.reply_with_audio_when_inbound_has_audio THEN NoAudioFields
    ELSE IF call.tts.kind = "raises" THEN [raised |-> TRUE, fields |-> <<>>]
    ELSE IF call.tts.kind # "dict" THEN NoAudioFields
    ELSE LET src_path == strip(get_or_empty(call.tts.file_path))
             fmt == strip(IF get_or_empty(call.tts.format) # <<>>
                          THEN call.tts.format ELSE tts_format)
             rel_path == <<"tts/", "a">> \o <<".">> \o fmt
             url == build_public_media_url(call.media_public_base_url, rel_path)
         IN  IF src_path = <<>> THEN NoAudioFields
             ELSE IF call.copy = "raises" THEN [raised |-> TRUE, fields |-> <<>>]
             ELSE IF url = <<>> THEN NoAudioFields
             ELSE [raised |-> FALSE,
                   fields |-> [reply_audio_url |-> Str(url),
                               reply_audio_mime_type |->
                                   Str(guess_mime_type_from_audio_format(fmt))]]

\* dict.update
update(d, fields) ==
    [f \in DOMAIN d \cup DOMAIN fields |-> IF f \in DOMAIN fields THEN fields[f] ELSE d[f]]

\* Variant of attach_audio_reply: an exception of the audio reply is not caught.
attach_audio_reply_unguarded(out_payload, call) ==
    IF ~call.inbound_has_audio THEN [raised |-> FALSE, out_payload |-> out_payload]
    ELSE LET audio == maybe_build_audio_reply(call)
         IN  [raised |-> audio.raised,
              out_payload |-> IF audio.fields # <<>> THEN update(out_payload, audio.fields)
                              ELSE out_payload]

\* if pre.inbound_has_audio: try: ... except Exception: warning
\* (worker.py:464-471): the envelope after the step, and whether an exception
\* left the step.
attach_audio_reply(out_payload, call) ==
    IF ~call.inbound_has_audio THEN [raised |-> FALSE, out_payload |-> out_payload]
    ELSE LET audio == maybe_build_audio_reply(call)
         IN  [raised |-> FALSE,
              out_payload |-> IF ~audio.raised /\ audio.fields # <<>>
                              THEN update(out_payload, audio.fields)
                              ELSE out_payload]

\* The inbound context and the reply of the pass
ReplyCtx ==
    [stream_message_id |-> <<"1-0">>, metadata_json |-> <<>>, message_id |-> <<"SM1">>,
     conversation_id |-> <<"SM1">>]

TextOnlyPayload == build_outbound_payload_fields(ReplyCtx, <<"reply">>)

\* hResp of a pass: the envelope built, the envelopes appended to the
\* outbound stream, whether the inbound entry was XACKed, and the step that
\* ended the pass with an exception ("none": no step did).
NoReplyPass == [out_payload |-> <<>>, published |-> <<>>, acked |-> FALSE, failedAt |-> "none"]

\* _process_message from the reply text to the audio fields (worker.py:458-471)
ReplyBuild ==
    /\ hPhase = "input"
    /\ LET r == attach_audio_reply(TextOnlyPayload, hReq)
       IN  /\ hPhase' = IF r.raised THEN "failed" ELSE "publish"
           /\ hResp' = [hResp EXCEPT !.out_payload = r.out_payload,
                                     !.failedAt = IF r.raised THEN "audio" ELSE "none"]
    /\ UNCHANGED hReq
    /\ UNCHANGED <<workVars, assembleVars, composeVars, toolVars, memVars, semaphore,
                   idemVars, outStreamVars, dispVars>>

\* The memory step never raises (worker.py:473-500); publish_output
\* (worker.py:509) appends the envelope or raises.
ReplyPublish ==
    /\ hPhase = "publish"
    /\ \/ /\ hPhase' = "ack"
          /\ hResp' = [hResp EXCEPT !.published = Append(@, hResp.out_payload)]
       \/ /\ hPhase' = "failed"
          /\ hResp' = [hResp EXCEPT !.failedAt = "publish"]
    /\ UNCHANGED hReq
    /\ UNCHANGED <<workVars, assembleVars, composeVars, toolVars, memVars, semaphore,
                   idemVars, outStreamVars, dispVars>>

\* client.xack (worker.py:522) acknowledges the entry or raises.
ReplyAck ==
    /\ hPhase = "ack"
    /\ \/ /\ hPhase' = "done"
          /\ hResp' = [hResp EXCEPT !.acked = TRUE]
       \/ /\ hPhase' = "failed"
          /\ hResp' = [hResp EXCEPT !.failedAt = "ack"]
    /\ UNCHANGED hReq
    /\ UNCHANGED <<workVars, assembleVars, composeVars, toolVars, memVars, semaphore,
                   idemVars, outStreamVars, dispVars>>

-----------------------------------------------------------------------------
(* Channel delivery (outbound_dispatcher.py:100-136, twilio_whatsapp_sender.py) *)

\* The outbound entries handed to _process_one: the fields it reads and the
\* audio URL the worker may have attached (Absent: no such field).
DeliveryPayloads ==
    [out_id : {<<>>, <<"o1">>},
     source : {<<"whatsapp">>, <<"sms">>},
     user_id : {<<"whatsapp:+1">>},
     reply_text : {<<SP>>, <<"hi">>},
     reply_audio_url : {Absent, <<>>, <<"https://host", "/media/", "tts/", "a.mp3">>}]

\* One call of _process_one: the entry, what was_sent answers, and which
\* outside operation fails ("none", the Twilio API, mark_sent, or XACK).
DeliveryCalls ==
    [payload : DeliveryPayloads, was_sent : BOOLEAN,
     fails : {"none", "twilio", "mark_sent", "xack"}]

\* A request to the Twilio API (messages.create); media_url <<>>: no media
MessagesCreate(to, body, media_url) == [to |-> to, body |-> body, media_url |-> media_url]

\* TwilioWhatsAppSender.send_text(to, body): the API request made (<<>>: none)
\* and whether the method raised.
send_text(to, body, api_fails) ==
    IF to = <<>> \/ body = <<>> THEN [raised |-> TRUE, created |-> <<>>]
    ELSE IF api_fails THEN [raised |-> TRUE, created |-> <<>>]
    ELSE [raised |-> FALSE, created |-> <<MessagesCreate(to, body, <<>>)>>]

\* TwilioWhatsAppSender.send_text_with_media(to, body, media_url)
send_text_with_media(to, body, media_url, api_fails) ==
    IF to = <<>> \/ media_url = <<>> THEN [raised |-> TRUE, created |-> <<>>]
    ELSE IF api_fails THEN [raised |-> TRUE, created |-> <<>>]
    ELSE [raised |-> FALSE, created |-> <<MessagesCreate(to, body, <<media_url>>)>>]

NoDelivery == [created |-> <<>>, marked |-> FALSE, acked |-> FALSE, outcome |-> "none"]

\* OutboundDispatcher._process_one(client, stream_id, payload).  outcome:
\* "invalid" or "skipped" (ACK and return), "delivered", "failed" (the except
\* branch), "raised" (an exception left the function).
process_one ==
    /\ hPhase = "input"
    /\ hPhase' = "done"
    /\ LET payload == hReq.payload
           out_id == strip(payload.out_id)
           source == IF payload.source = <<>> THEN <<"unknown">> ELSE strip(payload.source)
           user_id == strip(payload.user_id)
           reply_text == strip(payload.reply_text)
           sent == IF source = <<"whatsapp">>
                   THEN send_text(user_id, reply_text, hReq.fails = "twilio")
                   ELSE [raised |-> TRUE, created |-> <<>>]
       IN  hResp' =
             IF out_id = <<>> \/ user_id = <<>> \/ reply_text = <<>>
             THEN IF hReq.fails = "xack" THEN [NoDelivery EXCEPT !.outcome = "raised"]
                  ELSE [NoDelivery EXCEPT !.acked = TRUE, !.outcome = "invalid"]
             ELSE IF hReq.was_sent
             THEN IF hReq.fails = "xack" THEN [NoDelivery EXCEPT !.outcome = "raised"]
                  ELSE [NoDelivery EXCEPT !.acked = TRUE, !.outcome = "skipped"]
             ELSE IF sent.raised THEN [NoDelivery EXCEPT !.outcome = "failed"]
             ELSE IF hReq.fails = "mark_sent"
             THEN [NoDelivery EXCEPT !.created = sent.created, !.outcome = "failed"]
             ELSE IF hReq.fails = "xack"
             THEN [NoDelivery EXCEPT !.created = sent.created, !.marked = TRUE,
                                     !.outcome = "failed"]
             ELSE [created |-> sent.created, marked |-> TRUE, acked |-> TRUE,
                   outcome |-> "delivered"]
    /\ UNCHANGED hReq
    /\ UNCHANGED <<workVars, assembleVars, composeVars, toolVars, memVars, semaphore,
                   idemVars, outStreamVars, dispVars>>

-----------------------------------------------------------------------------
(* Source-based fallback of agent composition (agent_definitions.py:186-350) *)

\* Tools handed to the composition
MaxWrapped == 3

\* source_server values
SourceServers == {<<"notion", "-", "Api">>, <<"localAudio">>}

\* The wrapped tools: the i-th tool is named by its position, and comes from
\* any of the servers.
RECURSIVE WrappedToolLists(_)
WrappedToolLists(n) ==
    IF n = 0 THEN {<<>>}
    ELSE LET shorter == WrappedToolLists(n - 1)
         IN  shorter \cup
             {Append(l, [name |-> <<"tool-" \o ToString(n)>>, source_server |-> s]) :
                 l \in {x \in shorter : Len(x) = n - 1}, s \in SourceServers}

\* What agent_config.json gives for a server: no entry, an empty entry, or
\* an entry with a responsibility and a system message.
AgentConfigs == [SourceServers -> {"missing", "empty", "config"}]

\* _normalize_agent_name(source_server)
normalize_agent_name(source_server) ==
    [i \in 1..Len(source_server) |->
        CASE source_server[i] \in {SP, "-"} -> "_"
          [] source_server[i] = "Api" -> "api"
          [] source_server[i] = "localAudio" -> "localaudio"
          [] OTHER -> source_server[i]]

\* The keys of tools_by_server, in the order of first appearance, and the
\* tool names of a server in the order of the input
RECURSIVE servers_in_order(_)
servers_in_order(wrapped_tools) ==
    IF wrapped_tools = <<>> THEN <<>>
    ELSE LET front == servers_in_order(SubSeq(wrapped_tools, 1, Len(wrapped_tools) - 1))
             s == wrapped_tools[Len(wrapped_tools)].source_server
         IN  IF \E i \in 1..Len(front) : front[i] = s THEN front ELSE Append(front, s)

RECURSIVE tool_names_of(_, _)
tool_names_of(wrapped_tools, server) ==
    IF wrapped_tools = <<>> THEN <<>>
    ELSE LET front == tool_names_of(SubSeq(wrapped_tools, 1, Len(wrapped_tools) - 1), server)
             w == wrapped_tools[Len(wrapped_tools)]
         IN  IF w.source_server = server THEN Append(front, w.name) ELSE front

\* The local variable tool_names before its first assignment
Unbound == <<"<unbound>">>

\* The default entry; its system message names the server and lists tool_names
default_cfg(server_name, tool_names) ==
    [responsibility |-> <<"Handle operations for server '">> \o server_name \o <<"'.">>,
     system_message |-> [agent |-> server_name, tools |-> tool_names]]

\* An entry of agent_config.json
config_cfg(server_name) ==
    [responsibility |-> <<"configured responsibility of ">> \o server_name,
     system_message |-> [agent |-> server_name, tools |-> <<"configured">>]]

\* The loop of create_agent_definitions_from_source over the first k servers:
\* the agents appended so far, the value of the local tool_names, and whether
\* an exception ended the loop.  The default entry reads tool_names before
\* the iteration assigns it (lines 226-231, 238).
RECURSIVE from_source_loop(_, _, _)
from_source_loop(wrapped_tools, agent_cfg_map, k) ==
    IF k = 0 THEN [raised |-> FALSE, agents |-> <<>>, tool_names |-> Unbound]
    ELSE LET before == from_source_loop(wrapped_tools, agent_cfg_map, k - 1)
             server_name == servers_in_order(wrapped_tools)[k]
             tools == tool_names_of(wrapped_tools, server_name)
             defaults == agent_cfg_map[server_name] # "config"
             cfg == IF defaults THEN default_cfg(server_name, before.tool_names)
                    ELSE config_cfg(server_name)
         IN  IF before.raised THEN before
             ELSE IF defaults /\ before.tool_names = Unbound
             THEN [before EXCEPT !.raised = TRUE]
             ELSE [raised |-> FALSE,
                   agents |-> Append(before.agents,
                                [name |-> normalize_agent_name(server_name),
                                 responsibility |-> cfg.responsibility,
                                 system_message |-> cfg.system_message,
                                 tools |-> tools,
                                 source_server |-> server_name]),
                   tool_names |-> tools]

\* create_agent_definitions_from_source(wrapped_tools), given the agent config
from_source(wrapped_tools, agent_cfg_map) ==
    LET r == from_source_loop(wrapped_tools, agent_cfg_map,
                              Len(servers_in_order(wrapped_tools)))
    IN  [raised |-> r.raised, agents |-> IF r.raised THEN <<>> ELSE r.agents]

\* create_agent_definitions_with_llm(tagged_tools, llm, ...) when
\* structured_llm.invoke raises: the except branch returns the fallback.
with_llm_raising(tagged_tools, agent_cfg_map) ==
    IF tagged_tools = <<>> THEN [raised |-> FALSE, agents |-> <<>>]
    ELSE from_source(tagged_tools, agent_cfg_map)

\* One composition whose LLM call raises
ComposeFallback ==
    /\ hPhase = "input"
    /\ hPhase' = "done"
    /\ hResp' = with_llm_raising(hReq.tagged_tools, hReq.agent_cfg_map)
    /\ UNCHANGED hReq
    /\ UNCHANGED <<workVars, assembleVars, composeVars, toolVars, memVars, semaphore,
                   idemVars, outStreamVars, dispVars>>

-----------------------------------------------------------------------------
(* MCP tool discovery cache (mcp/mcp_client.py:271-395)                      *)

\* Discoveries counted per server, and tool lists a server offers over time
MaxContacts == 3
MaxVersions == 2

\* The servers of the config, and a name that is not in it
ConfiguredServers == {"notionApi", "github"}
ServerNames == ConfiguredServers \cup {"ghost"}

\* Tool lists are named by the version of the server's offer; NotCached: the
\* key is not in _tools_cache; EmptyList: []
NotCached == 0
EmptyList == -1

NoCall == [server |-> "ghost", pc |-> "idle", result |-> NotCached, contacted |-> FALSE]

\* hReq: the MCPClient object and the servers it talks to
\*   client    self._client is set        cache     self._tools_cache
\*   contacts  list_tools requests each server received
\*   offer     the tool list each server offers now
\*   first     the list of the first discovery that succeeded since the last
\*             connect()
NewMCPClient ==
    [client |-> FALSE,
     cache |-> [s \in ConfiguredServers |-> NotCached],
     contacts |-> [s \in ConfiguredServers |-> 0],
     offer |-> [s \in ConfiguredServers |-> 1],
     first |-> [s \in ConfiguredServers |-> NotCached]]

\* Variant of tools_cache_clear: the cache is kept.
tools_cache_kept(cache) == cache

\* self._tools_cache.clear()
tools_cache_clear(cache) == [s \in ConfiguredServers |-> NotCached]

\* MCPClient.connect(); the program awaits it between calls.  hPhase names
\* the operation that acted last.
connect ==
    /\ hResp.call.pc # "discovering"
    /\ hPhase' = "connect"
    /\ hReq' = [hReq EXCEPT !.client = TRUE, !.cache = tools_cache_clear(hReq.cache),
                            !.first = [s \in ConfiguredServers |-> NotCached]]
    /\ UNCHANGED hResp
    /\ UNCHANGED <<workVars, assembleVars, composeVars, toolVars, memVars, semaphore,
                   idemVars, outStreamVars, dispVars>>

\* MCPClient.get_tools(server_name) up to the await: the cached list is
\* returned, or an error is raised, or the server is contacted.
get_tools_begin(server_name) ==
    /\ hResp.call.pc # "discovering"
    /\ hPhase' = "get_tools"
    /\ IF server_name \in ConfiguredServers /\ hReq.cache[server_name] # NotCached
       THEN /\ hResp' = [hResp EXCEPT !.call =
                           [server |-> server_name, pc |-> "returned",
                            result |-> hReq.cache[server_name], contacted |-> FALSE]]
            /\ UNCHANGED hReq
       ELSE IF ~hReq.client \/ server_name \notin ConfiguredServers
       THEN /\ hResp' = [hResp EXCEPT !.call =
                           [server |-> server_name, pc |-> "raised",
                            result |-> NotCached, contacted |-> FALSE]]
            /\ UNCHANGED hReq
       ELSE /\ hReq.contacts[server_name] < MaxContacts
            /\ hReq' = [hReq EXCEPT !.contacts[server_name] = @ + 1]
            /\ hResp' = [hResp EXCEPT !.call =
                           [server |-> server_name, pc |-> "discovering",
                            result |-> NotCached, contacted |-> TRUE]]
    /\ UNCHANGED <<workVars, assembleVars, composeVars, toolVars, memVars, semaphore,
                   idemVars, outStreamVars, dispVars>>

\* Variant of cache_after_discovery: a failed discovery is cached as [].
cache_after_discovery_remembering_failure(cache, server_name, ok, tools) ==
    [cache EXCEPT ![server_name] = IF ok THEN tools ELSE EmptyList]

\* self._tools_cache[server_name] = tools, reached only when the adapter's
\* get_tools returned
cache_after_discovery(cache, server_name, ok, tools) ==
    IF ok THEN [cache EXCEPT ![server_name] = tools] ELSE cache

\* get_tools after the await: the adapter returned the server's tools, or raised
get_tools_end ==
    /\ hResp.call.pc = "discovering"
    /\ hPhase' = "get_tools"
    /\ \E ok \in BOOLEAN :
          LET server_name == hResp.call.server
              tools == hReq.offer[server_name]
          IN  /\ hReq' = [hReq EXCEPT
                            !.cache = cache_after_discovery(hReq.cache, server_name, ok, tools),
                            !.first[server_name] = IF ok THEN tools ELSE @]
              /\ hResp' = [hResp EXCEPT !.call.pc = IF ok THEN "returned" ELSE "raised",
                                        !.call.result = IF ok THEN tools ELSE NotCached]
    /\ UNCHANGED <<workVars, assembleVars, composeVars, toolVars, memVars, semaphore,
                   idemVars, outStreamVars, dispVars>>

\* MCPClient.get_all_tools(): get_tools for every configured server in turn,
\* [] for a server whose discovery raised.
get_all_tools ==
    /\ hResp.call.pc # "discovering"
    /\ hReq.client
    /\ \A s \in ConfiguredServers :
          hReq.cache[s] = NotCached => hReq.contacts[s] < MaxContacts
    /\ hPhase' = "get_all_tools"
    /\ \E ok \in [ConfiguredServers -> BOOLEAN] :
          LET after(s) == IF hReq.cache[s] # NotCached THEN hReq.cache
                          ELSE cache_after_discovery(hReq.cache, s, ok[s], hReq.offer[s])
              asked(s) == hReq.cache[s] = NotCached
          IN  /\ hReq' = [hReq EXCEPT
                            !.cache = [s \in ConfiguredServers |-> after(s)[s]],
                            !.contacts = [s \in ConfiguredServers |->
                                            IF asked(s) THEN hReq.contacts[s] + 1
                                            ELSE hReq.contacts[s]],
                            !.first = [s \in ConfiguredServers |->
                                         IF asked(s) /\ ok[s] THEN hReq.offer[s]
                                         ELSE hReq.first[s]]]
              /\ hResp' = [hResp EXCEPT !.all_tools =
                             [s \in ConfiguredServers |->
                                 IF ~asked(s) THEN hReq.cache[s]
                                 ELSE IF ok[s] THEN hReq.offer[s] ELSE EmptyList]]
    /\ UNCHANGED <<workVars, assembleVars, composeVars, toolVars, memVars, semaphore,
                   idemVars, outStreamVars, dispVars>>

\* A server is upgraded: it offers another tool list from now on.
ServerChanges(s) ==
    /\ hReq.offer[s] < MaxVersions
    /\ hPhase' = "server"
    /\ hReq' = [hReq EXCEPT !.offer[s] = @ + 1]
    /\ UNCHANGED hResp
    /\ UNCHANGED <<workVars, assembleVars, composeVars, toolVars, memVars, semaphore,
                   idemVars, outStreamVars, dispVars>>

-----------------------------------------------------------------------------
(* Legacy worker (infra/redis_stream_worker.py:318-437)                      *)

\* The inbound entries handed to the legacy _process_message: the text
\* (Absent: no text field), whether the metadata names media, and what
\* supervisor.ainvoke does with the text.
LegacyCalls ==
    [text : {Absent, <<>>, <<SP>>, <<"hi">>, <<SP, "hi", SP>>},
     has_media : BOOLEAN,
     supervisor : {"raises", "empty", "reply"}]

\* Variant of legacy_text: the text is not trimmed.
legacy_text_untrimmed(payload) == get_or_empty(payload.text)

\* text = (payload.get("text") or "").strip()
legacy_text(payload) == strip(get_or_empty(payload.text))

\* hResp of a legacy pass: the texts the supervisor was invoked with, the
\* envelopes appended to the outbound stream, whether the entry was XACKed,
\* and the step that ended the pass with an exception
NoLegacyPass == [invoked |-> <<>>, published |-> <<>>, acked |-> FALSE, failedAt |-> "none"]

\* _process_message up to the empty-text test (lines 326-341)
LegacyStart ==
    /\ hPhase = "input"
    /\ hPhase' = IF legacy_text(hReq) = <<>> THEN "ackonly" ELSE "supervise"
    /\ UNCHANGED <<hReq, hResp>>
    /\ UNCHANGED <<workVars, assembleVars, composeVars, toolVars, memVars, semaphore,
                   idemVars, outStreamVars, dispVars>>

\* await client.xack(...) of an entry without text, outside the try (line 340)
LegacyAckOnly ==
    /\ hPhase = "ackonly"
    /\ \/ hPhase' = "done" /\ hResp' = [hResp EXCEPT !.acked = TRUE]
       \/ hPhase' = "raised" /\ hResp' = [hResp EXCEPT !.failedAt = "ackonly"]
    /\ UNCHANGED hReq
    /\ UNCHANGED <<workVars, assembleVars, composeVars, toolVars, memVars, semaphore,
                   idemVars, outStreamVars, dispVars>>

\* supervisor.ainvoke and the reply text (lines 348-374)
LegacySupervise ==
    /\ hPhase = "supervise"
    /\ IF hReq.supervisor = "raises"
       THEN hPhase' = "failed"
            /\ hResp' = [hResp EXCEPT !.invoked = Append(@, legacy_text(hReq)),
                                      !.failedAt = "supervise"]
       ELSE hPhase' = "publish"
            /\ hResp' = [hResp EXCEPT !.invoked = Append(@, legacy_text(hReq))]
    /\ UNCHANGED hReq
    /\ UNCHANGED <<workVars, assembleVars, composeVars, toolVars, memVars, semaphore,
                   idemVars, outStreamVars, dispVars>>

\* reply_text = extract_reply_text(result) or "Done."
legacy_reply_text(call) == IF call.supervisor = "reply" THEN <<"reply">> ELSE DoneText

\* publish_output(out_payload) (lines 376-405)
LegacyPublish ==
    /\ hPhase = "publish"
    /\ \/ /\ hPhase' = "ack"
          /\ hResp' = [hResp EXCEPT !.published =
                          Append(@, [correlation_id |-> <<"1-0">>,
                                     reply_text |-> legacy_reply_text(hReq),
                                     status |-> <<"success">>])]
       \/ hPhase' = "failed" /\ hResp' = [hResp EXCEPT !.failedAt = "publish"]
    /\ UNCHANGED hReq
    /\ UNCHANGED <<workVars, assembleVars, composeVars, toolVars, memVars, semaphore,
                   idemVars, outStreamVars, dispVars>>

\* await client.xack(...) after the publish (line 418)
LegacyAck ==
    /\ hPhase = "ack"
    /\ \/ hPhase' = "done" /\ hResp' = [hResp EXCEPT !.acked = TRUE]
       \/ hPhase' = "failed" /\ hResp' = [hResp EXCEPT !.failedAt = "ack"]
    /\ UNCHANGED hReq
    /\ UNCHANGED <<workVars, assembleVars, composeVars, toolVars, memVars, semaphore,
                   idemVars, outStreamVars, dispVars>>

-----------------------------------------------------------------------------
(* Outbound status and memory gate (worker.py:235-254, 456-510)              *)

\* The status values of a structured supervisor reply (<<>>: none)
ReplyStatuses == {<<>>, <<"success">>, <<"SUCCESS", SP>>, <<"error">>}

\* What a pass has in `result` when it reaches the output extraction: the
\* immediate reply, or the supervisor's structured reply; and the events the
\* tracker collected.
StatusCalls ==
    [result : {ImmediateReply}
              \cup {SupervisorResult(out, st) : out \in {<<>>, <<"reply">>}, st \in ReplyStatuses},
     events : EventTraces]

\* Variant of outbound_envelope: the status of the supervisor's reply is
\* copied into the envelope.
outbound_envelope_with_reply_status(result) ==
    [build_outbound_payload_fields(ReplyCtx, reply_text_of(result)) EXCEPT
        !["status"] = IF status_norm(result) = <<>> THEN @ ELSE Str(status_norm(result))]

\* reply_text = extract_reply_text(result) or "Done."
\* out_payload = _build_outbound_payload(ctx, reply_text)   (worker.py:458-462)
outbound_envelope(result) ==
    build_outbound_payload_fields(ReplyCtx, reply_text_of(result))

NoStatusPass == [out_payload |-> <<>>, gate |-> FALSE, published |-> <<>>]

\* Output extraction and envelope (worker.py:456-462)
StatusBuild ==
    /\ hPhase = "input"
    /\ hPhase' = "memory"
    /\ hResp' = [hResp EXCEPT !.out_payload = outbound_envelope(hReq.result)]
    /\ UNCHANGED hReq
    /\ UNCHANGED <<workVars, assembleVars, composeVars, toolVars, memVars, semaphore,
                   idemVars, outStreamVars, dispVars>>

\* The memory step (worker.py:473-500): safe_write_success is called when the
\* gate passes; the step never raises.
StatusMemory ==
    /\ hPhase = "memory"
    /\ hPhase' = "publish"
    /\ hResp' = [hResp EXCEPT !.gate = memory_gate(hReq.result, hReq.events)]
    /\ UNCHANGED hReq
    /\ UNCHANGED <<workVars, assembleVars, composeVars, toolVars, memVars, semaphore,
                   idemVars, outStreamVars, dispVars>>

\* publish_output(out_payload) (worker.py:502-509)
StatusPublish ==
    /\ hPhase = "publish"
    /\ \/ hPhase' = "done" /\ hResp' = [hResp EXCEPT !.published = <<hResp.out_payload>>]
       \/ hPhase' = "failed" /\ UNCHANGED hResp
    /\ UNCHANGED hReq
    /\ UNCHANGED <<workVars, assembleVars, composeVars, toolVars, memVars, semaphore,
                   idemVars, outStreamVars, dispVars>>

-----------------------------------------------------------------------------
(* Memory write and redelivery (worker.py:473-539, memory_store.py:212-300)  *)

\* Redeliveries of the inbound entry
MaxReplays == 2

\* hReq: the memory documents of the user and the pass under way
\*   passes              passes of the entry begun so far
\*   gate                status_norm == "success" and grounded, in this pass
\*   healthy             writes the memory store accepts in this pass before one
\*                       fails (3: all)
\*   conversation_state  the pass that wrote the document last (0: not written)
\*   user_profile        likewise
NoReplay ==
    [passes |-> 0, gate |-> FALSE, healthy |-> 0, conversation_state |-> 0, user_profile |-> 0]

\* hResp: what was done for the entry over all its passes
\*   gated      passes that passed the gate with a memory store accepting all writes
\*   published  envelopes appended to the outbound stream
\*   acked      the entry was XACKed
NoReplayHistory == [gated |-> 0, published |-> 0, acked |-> FALSE]

\* The entry is delivered to a task (first delivery or redelivery of the
\* pending entry); the supervisor runs and the pass reaches the memory step.
ReplayStart ==
    /\ hPhase \in {"sched", "failed"}
    /\ hReq.passes <= MaxReplays
    /\ hPhase' = "memory"
    /\ \E gate \in BOOLEAN, healthy \in 0..3 :
          /\ hReq' = [hReq EXCEPT !.passes = @ + 1, !.gate = gate, !.healthy = healthy]
          /\ hResp' = [hResp EXCEPT !.gated = IF gate /\ healthy = 3 THEN @ + 1 ELSE @]
    /\ UNCHANGED <<workVars, assembleVars, composeVars, toolVars, memVars, semaphore,
                   idemVars, outStreamVars, dispVars>>

\* Variant of ReplayMemory: the event is appended only when the user's list
\* holds no event yet.
ReplayMemory_once ==
    /\ hPhase = "memory"
    /\ hPhase' = "publish"
    /\ hReq' = [hReq EXCEPT
                  !.conversation_state = IF hReq.gate /\ hReq.healthy >= 1 THEN hReq.passes ELSE @,
                  !.user_profile = IF hReq.gate /\ hReq.healthy >= 2 THEN hReq.passes ELSE @]
    /\ IF hReq.gate /\ hReq.healthy = 3 /\ userEvents["u1"] = <<>>
       THEN /\ userEvents' =
                 [userEvents EXCEPT !["u1"] =
                     ltrim(lpush(@, event_payload(Len(appended) + 1)), 0,
                           max_items(memory_user_events_max_items) - 1)]
            /\ appended' = Append(appended, [user |-> "u1", earlier |-> FALSE])
       ELSE UNCHANGED <<userEvents, appended>>
    /\ UNCHANGED <<hResp, memory_user_events_max_items>>
    /\ UNCHANGED <<workVars, assembleVars, composeVars, toolVars, semaphore,
                   idemVars, outStreamVars, dispVars>>

\* The memory step (worker.py:473-500): when the gate passes,
\* safe_write_success writes the conversation state, the profile and the
\* event in this order and stops at the first write that fails; the step
\* never raises.
ReplayMemory ==
    /\ hPhase = "memory"
    /\ hPhase' = "publish"
    /\ hReq' = [hReq EXCEPT
                  !.conversation_state = IF hReq.gate /\ hReq.healthy >= 1 THEN hReq.passes ELSE @,
                  !.user_profile = IF hReq.gate /\ hReq.healthy >= 2 THEN hReq.passes ELSE @]
    /\ IF hReq.gate /\ hReq.healthy = 3
       THEN /\ userEvents' =
                 [userEvents EXCEPT !["u1"] =
                     ltrim(lpush(@, event_payload(Len(appended) + 1)), 0,
                           max_items(memory_user_events_max_items) - 1)]
            /\ appended' = Append(appended, [user |-> "u1", earlier |-> FALSE])
       ELSE UNCHANGED <<userEvents, appended>>
    /\ UNCHANGED <<hResp, memory_user_events_max_items>>
    /\ UNCHANGED <<workVars, assembleVars, composeVars, toolVars, semaphore,
                   idemVars, outStreamVars, dispVars>>

\* publish_output (worker.py:502-509): the envelope is appended, or the call
\* raises and the except branch ends the pass without an ACK.
ReplayPublish ==
    /\ hPhase = "publish"
    /\ \/ hPhase' = "ack" /\ hResp' = [hResp EXCEPT !.published = @ + 1]
       \/ hPhase' = "failed" /\ UNCHANGED hResp
    /\ UNCHANGED hReq
    /\ UNCHANGED <<workVars, assembleVars, composeVars, toolVars, memVars, semaphore,
                   idemVars, outStreamVars, dispVars>>

\* client.xack (worker.py:520-523)
ReplayAck ==
    /\ hPhase = "ack"
    /\ \/ hPhase' = "done" /\ hResp' = [hResp EXCEPT !.acked = TRUE]
       \/ hPhase' = "failed" /\ UNCHANGED hResp
    /\ UNCHANGED hReq
    /\ UNCHANGED <<workVars, assembleVars, composeVars, toolVars, memVars, semaphore,
                   idemVars, outStreamVars, dispVars>>

-----------------------------------------------------------------------------
(* Specifications *)

IdleAssemble ==
    /\ aPhase = "idle"
    /\ aResult = [shape |-> "none", text |-> <<>>, msg |-> NoMsg, output |-> <<>>,
                  objs |-> TRUE, msgs |-> <<>>]
    /\ aReply = <<>>

IdleCall ==
    /\ hPhase = "idle"
    /\ hReq = <<>>
    /\ hResp = <<>>

IdleCompose ==
    /\ cPhase = "idle"
    /\ cLlm = [raises |-> FALSE, agents |-> <<>>]
    /\ cDefs = <<>>

IdleTools ==
    /\ tasks = <<>>
    /\ collectors = <<>>
    /\ toolCalls = <<>>
    /\ notionRepeat = <<>>

\* No semaphore made yet
IdleLimit == semaphore = 0

IdleMemory ==
    /\ memory_user_events_max_items = 15
    /\ userEvents = <<>>
    /\ appended = <<>>

InitAssemble ==
    /\ aPhase = "input"
    /\ aResult \in Results(MaxMsgs)
    /\ aReply = <<>>
    /\ IdleCompose /\ IdleLimit /\ IdleTools /\ IdleMemory /\ InitIdem /\ InitOutStream /\ InitDispatcher /\ InitInStream /\ IdleWorker /\ IdleCall

NextAssemble == ExtractReply

SpecAssemble == InitAssemble /\ [][NextAssemble]_vars

InitCompose ==
    /\ cPhase = "input"
    /\ cLlm \in LlmOutcomes
    /\ cDefs = <<>>
    /\ IdleAssemble /\ InitIdem /\ InitOutStream /\ InitDispatcher /\ InitInStream /\ IdleWorker /\ IdleCall
    /\ IdleTools /\ IdleMemory /\ IdleLimit

NextCompose == Compose

SpecCompose == InitCompose /\ [][NextCompose]_vars

InitDispatch ==
    /\ InitIdem /\ InitOutStream /\ InitDispatcher /\ InitInStream /\ IdleWorker /\ IdleCall
    /\ IdleAssemble /\ IdleCompose /\ IdleLimit /\ IdleTools /\ IdleMemory

NextDispatch ==
    \/ ProducerPublish
    \/ DConsumeOnce
    \/ \E e \in 1..MaxOutbound :
          \/ DStart(e) \/ DCheck(e) \/ DSend(e) \/ DMark(e) \/ DAck(e) \/ DAckOnly(e)
          \/ StoreRedeliverOutbound(e)

SpecDispatch == InitDispatch /\ [][NextDispatch]_vars

NextIdem == Tick \/ \E o \in OutIds : IdemMarkSent(o)

SpecIdem == InitDispatch /\ [][NextIdem]_vars

\* The worker alone: ingress, the consume loop, the tasks, restarts, and the
\* store's redeliveries.
WorkerStep(m) ==
    \/ WStart(m) \/ WPrefetch(m) \/ WSupervise(m) \/ WReply(m) \/ WMemory(m) \/ WPublish(m) \/ WAck(m)

NextWorker ==
    \/ Ingress
    \/ WConsumeOnce
    \/ WorkerRestart
    \/ \E m \in 1..MaxInbound : WorkerStep(m) \/ StoreRedeliverInbound(m)

InitWork ==
    /\ InitIdem /\ InitOutStream /\ InitDispatcher /\ InitInStream /\ InitWorker
    /\ IdleAssemble /\ IdleCompose /\ IdleLimit /\ IdleTools /\ IdleMemory /\ IdleCall

SpecWorker == InitWork /\ [][NextWorker]_vars

\* The consume loop runs for ever and every task created is run by the event
\* loop: weak fairness of the worker's own steps.
FairSpecWorker ==
    /\ InitWork
    /\ [][NextWorker]_vars
    /\ WF_vars(WConsumeOnce)
    /\ \A m \in 1..MaxInbound : WF_vars(WorkerStep(m))

\* Worker and dispatcher together, the worker being the only producer.
NextPipeline ==
    \/ WConsumeOnce
    \/ WorkerRestart
    \/ \E m \in 1..MaxInbound : WorkerStep(m) \/ StoreRedeliverInbound(m)
    \/ DConsumeOnce
    \/ \E e \in 1..MaxOutbound :
          \/ DStart(e) \/ DCheck(e) \/ DSend(e) \/ DMark(e) \/ DAck(e) \/ DAckOnly(e)
          \/ StoreRedeliverOutbound(e)

\* Redelivery scenario: one text message is in the inbound stream, and the
\* supervisor answers it with a grounded success.
InitPipeline ==
    /\ InitIdem /\ InitOutStream /\ InitDispatcher
    /\ IdleAssemble /\ IdleCompose /\ IdleLimit /\ IdleTools /\ IdleMemory
    /\ inbound = <<[kind |-> "text"]>>
    /\ wLast = 0 /\ wPel = {} /\ wAcked = {}
    /\ InitWorkerTasks /\ IdleCall
    /\ supervisor = {[result |-> SupervisorResult(<<"reply">>, <<"success">>),
                      events |-> <<Ev(<<"notion_", "search">>, TRUE)>>]}

SpecPipeline == InitPipeline /\ [][NextPipeline]_vars

InitWebhook ==
    /\ hPhase = "input"
    /\ hReq \in WebhookRequests(MaxMedia)
    /\ hResp = [status |-> 0]
    /\ InitIdem /\ InitOutStream /\ InitDispatcher /\ InitInStream /\ IdleWorker
    /\ IdleAssemble /\ IdleCompose /\ IdleLimit /\ IdleTools /\ IdleMemory

NextWebhook == whatsapp_webhook

SpecWebhook == InitWebhook /\ [][NextWebhook]_vars

InitToolCall ==
    /\ hPhase = "input"
    /\ hReq \in ToolCalls
    /\ hResp = [returned |-> NoError, inner |-> NotInvoked, recorded |-> FALSE]
    /\ InitIdem /\ InitOutStream /\ InitDispatcher /\ InitInStream /\ IdleWorker
    /\ IdleAssemble /\ IdleCompose /\ IdleLimit /\ IdleTools /\ IdleMemory

NextToolCall == ValidatingTool_arun

SpecToolCall == InitToolCall /\ [][NextToolCall]_vars

InitCreateAgents ==
    /\ hPhase = "input"
    /\ hReq \in CreateAgentsCalls
    /\ hResp = [raised |-> NoAgentError, agents |-> <<>>]
    /\ InitIdem /\ InitOutStream /\ InitDispatcher /\ InitInStream /\ IdleWorker
    /\ IdleAssemble /\ IdleCompose /\ IdleLimit /\ IdleTools /\ IdleMemory

NextCreateAgents == create_agents

SpecCreateAgents == InitCreateAgents /\ [][NextCreateAgents]_vars

InitEnvelope ==
    /\ hPhase = "input"
    /\ hReq \in EnvelopeCalls
    /\ hResp = <<>>
    /\ InitIdem /\ InitOutStream /\ InitDispatcher /\ InitInStream /\ IdleWorker
    /\ IdleAssemble /\ IdleCompose /\ IdleLimit /\ IdleTools /\ IdleMemory

NextEnvelope == BuildEnvelope

SpecEnvelope == InitEnvelope /\ [][NextEnvelope]_vars

InitMedia ==
    /\ hPhase = "input"
    /\ hReq \in RelPaths(MaxPathLen)
    /\ hResp = HTTP(0)
    /\ InitIdem /\ InitOutStream /\ InitDispatcher /\ InitInStream /\ IdleWorker
    /\ IdleAssemble /\ IdleCompose /\ IdleLimit /\ IdleTools /\ IdleMemory

NextMedia == get_media

SpecMedia == InitMedia /\ [][NextMedia]_vars

InitBootstrap ==
    /\ hPhase = "input"
    /\ hReq \in Bootstraps
    /\ hResp = [registry |-> {}, raised |-> NoAgentError, agents |-> <<>>]
    /\ InitIdem /\ InitOutStream /\ InitDispatcher /\ InitInStream /\ IdleWorker
    /\ IdleAssemble /\ IdleCompose /\ IdleLimit /\ IdleTools /\ IdleMemory

NextBootstrap == bootstrap_agents

SpecBootstrap == InitBootstrap /\ [][NextBootstrap]_vars

\* No message is being processed yet.
NoTasks ==
    [t \in TaskIds |-> IF t = Loop THEN NewTask("running")
                       ELSE IF t \in MsgTasks THEN NewTask("unscheduled")
                       ELSE NewTask("unspawned")]

\* The supervisor runs of the messages in `order` have begun, in that order,
\* each with the collector its reset_tool_events() made.
Supervising(order) ==
    [t \in TaskIds |->
        IF \E i \in 1..Len(order) : order[i] = t
        THEN [NewTask("supervising") EXCEPT
                 !.collector = CHOOSE i \in 1..Len(order) : order[i] = t]
        ELSE NoTasks[t]]

InitToolRuntime(order) ==
    /\ tasks = Supervising(order)
    /\ collectors = [i \in 1..Len(order) |-> <<>>]
    /\ toolCalls = <<>>
    /\ notionRepeat = NoRepeats
    /\ InitIdem /\ InitOutStream /\ InitDispatcher /\ InitInStream /\ IdleWorker
    /\ IdleAssemble /\ IdleCompose /\ IdleLimit /\ IdleCall /\ IdleMemory

\* One invocation of a wrapped tool during the supervisor run of a message.
InitToolResult == InitToolRuntime(<<"A">>)

NextToolResult ==
    \E name \in ToolNames, result \in ToolResultsOver(Payloads) :
        toolCalls = <<>> /\ ValidatingTool_arun_invoke("A", name, result)

SpecToolResult == InitToolResult /\ [][NextToolResult]_vars

\* Provider validation errors over time, during the supervisor runs of two
\* messages going on at once.
InitRepeat == InitToolRuntime(<<"A", "B">>)

NextRepeat ==
    \/ RepeatTick
    \/ \E t \in MsgTasks, name \in ToolNames, msg \in {"m1", "m2"} :
          /\ Len(toolCalls) < MaxOccurrences
          /\ ValidatingTool_arun_invoke(t, name, NotionValidationError(msg))

SpecRepeat == InitRepeat /\ [][NextRepeat]_vars

\* The tasks of two inbound entries, from their creation to their grounding gate.
InitTracker == InitToolRuntime(<<>>)

NextTracker ==
    \/ \E m \in MsgTasks :
          \/ CreateTask(m) \/ ResetToolEvents(m) \/ ImmediateReplyPass(m)
          \/ SpawnSubTask(m) \/ SupervisorReturns(m) \/ GroundingGate(m)
    \/ \E t \in MsgTasks \cup SubTasks :
          /\ Len(toolCalls) < MaxToolCalls
          /\ ValidatingTool_arun_invoke(t, <<"notionApi_", "API-post-search">>, OkResult)

SpecTracker == InitTracker /\ [][NextTracker]_vars

\* Appends for two users and reads of their context, by any number of callers.
InitMemory ==
    /\ memory_user_events_max_items \in MaxItemsSettings
    /\ \E n \in {0, max_items(memory_user_events_max_items)} :
          /\ appended = EarlierEvents("u1", n)
          /\ userEvents = [u \in Users |-> IF u = "u1" THEN NewestFirst(n) ELSE <<>>]
    /\ hPhase = "idle" /\ hReq = <<>>
    /\ hResp = [user_id |-> "u1", recent_events |-> <<>>, after |-> 0]
    /\ InitIdem /\ InitOutStream /\ InitDispatcher /\ InitInStream /\ IdleWorker
    /\ IdleAssemble /\ IdleCompose /\ IdleLimit /\ IdleTools

NextMemory == \E u \in Users : append_user_event(u) \/ get_context(u)

SpecMemory == InitMemory /\ [][NextMemory]_vars

InitUpsert ==
    /\ hPhase = "input"
    /\ hReq \in UpsertCalls
    /\ hResp = [merged |-> EmptyDoc, stored |-> EmptyDoc]
    /\ InitIdem /\ InitOutStream /\ InitDispatcher /\ InitInStream /\ IdleWorker
    /\ IdleAssemble /\ IdleCompose /\ IdleLimit /\ IdleTools /\ IdleMemory

NextUpsert == upsert

SpecUpsert == InitUpsert /\ [][NextUpsert]_vars

\* A consume loop and the tasks it creates under a semaphore
InitLimit ==
    /\ semaphore = LimitMaxConcurrency
    /\ tasks = [t \in Scheduled |-> NewTask("unscheduled")]
    /\ collectors = <<>> /\ toolCalls = <<>> /\ notionRepeat = <<>>
    /\ InitIdem /\ InitOutStream /\ InitDispatcher /\ InitInStream /\ IdleWorker
    /\ IdleAssemble /\ IdleCompose /\ IdleCall /\ IdleMemory

NextLimit == \E t \in Scheduled : ScheduleTask(t) \/ EnterLimit(t) \/ LeaveLimit(t)

SpecLimit == InitLimit /\ [][NextLimit]_vars

\* One process and its group: the worker with one text message in the
\* inbound stream, or the dispatcher with one envelope in the outbound
\* stream; no group exists before the first start().
InitStart ==
    /\ hPhase = "input"
    /\ hReq \in [who : Processes, group : {FALSE}]
    /\ hResp = <<>>
    /\ InitIdem /\ InitDispatcher /\ InitWorker
    /\ IdleAssemble /\ IdleCompose /\ IdleLimit /\ IdleTools /\ IdleMemory
    /\ wLast = 0 /\ wPel = {} /\ wAcked = {}
    /\ dLast = 0 /\ dPel = {} /\ dAcked = {}
    /\ inbound = IF hReq.who = "worker" THEN <<[kind |-> "text"]>> ELSE <<>>
    /\ outbound = IF hReq.who = "dispatcher"
                  THEN <<Envelope(uuid(1), message_id(1), <<"whatsapp">>,
                                  <<"whatsapp:+1">>, <<"hi">>)>>
                  ELSE <<>>

NextStart ==
    \/ \E who \in Processes : start(who) \/ start_consume_once(who)
    \/ ProcessRelaunch
    \/ \E m \in 1..MaxInbound : hReq.who = "worker" /\ WorkerStep(m)
    \/ \E e \in 1..MaxOutbound :
          /\ hReq.who = "dispatcher"
          /\ \/ DStart(e) \/ DCheck(e) \/ DSend(e) \/ DMark(e) \/ DAck(e) \/ DAckOnly(e)

SpecStart == InitStart /\ [][NextStart]_vars

InitPrepare ==
    /\ hPhase = "input"
    /\ hReq \in PrepareCalls
    /\ hResp = NoPreSupervisorResult
    /\ InitIdem /\ InitOutStream /\ InitDispatcher /\ InitInStream /\ IdleWorker
    /\ IdleAssemble /\ IdleCompose /\ IdleLimit /\ IdleTools /\ IdleMemory

NextPrepare == prepare_for_supervisor

SpecPrepare == InitPrepare /\ [][NextPrepare]_vars

InitAudioReply ==
    /\ hPhase = "input"
    /\ hReq \in AudioReplyCalls
    /\ hResp = NoReplyPass
    /\ InitIdem /\ InitOutStream /\ InitDispatcher /\ InitInStream /\ IdleWorker
    /\ IdleAssemble /\ IdleCompose /\ IdleLimit /\ IdleTools /\ IdleMemory

NextAudioReply == ReplyBuild \/ ReplyPublish \/ ReplyAck

SpecAudioReply == InitAudioReply /\ [][NextAudioReply]_vars

InitDeliver ==
    /\ hPhase = "input"
    /\ hReq \in DeliveryCalls
    /\ hResp = NoDelivery
    /\ InitIdem /\ InitOutStream /\ InitDispatcher /\ InitInStream /\ IdleWorker
    /\ IdleAssemble /\ IdleCompose /\ IdleLimit /\ IdleTools /\ IdleMemory

NextDeliver == process_one

SpecDeliver == InitDeliver /\ [][NextDeliver]_vars

InitFallback ==
    /\ hPhase = "input"
    /\ hReq \in [tagged_tools : WrappedToolLists(MaxWrapped), agent_cfg_map : AgentConfigs]
    /\ hResp = [raised |-> FALSE, agents |-> <<>>]
    /\ InitIdem /\ InitOutStream /\ InitDispatcher /\ InitInStream /\ IdleWorker
    /\ IdleAssemble /\ IdleCompose /\ IdleLimit /\ IdleTools /\ IdleMemory

NextFallback == ComposeFallback

SpecFallback == InitFallback /\ [][NextFallback]_vars

InitDiscovery ==
    /\ hPhase = "new"
    /\ hReq = NewMCPClient
    /\ hResp = [call |-> NoCall, all_tools |-> [s \in ConfiguredServers |-> NotCached]]
    /\ InitIdem /\ InitOutStream /\ InitDispatcher /\ InitInStream /\ IdleWorker
    /\ IdleAssemble /\ IdleCompose /\ IdleLimit /\ IdleTools /\ IdleMemory

NextDiscovery ==
    \/ connect
    \/ \E s \in ServerNames : get_tools_begin(s)
    \/ get_tools_end
    \/ get_all_tools
    \/ \E s \in ConfiguredServers : ServerChanges(s)

SpecDiscovery == InitDiscovery /\ [][NextDiscovery]_vars

InitLegacy ==
    /\ hPhase = "input"
    /\ hReq \in LegacyCalls
    /\ hResp = NoLegacyPass
    /\ InitIdem /\ InitOutStream /\ InitDispatcher /\ InitInStream /\ IdleWorker
    /\ IdleAssemble /\ IdleCompose /\ IdleLimit /\ IdleTools /\ IdleMemory

NextLegacy ==
    LegacyStart \/ LegacyAckOnly \/ LegacySupervise \/ LegacyPublish \/ LegacyAck

SpecLegacy == InitLegacy /\ [][NextLegacy]_vars

InitStatus ==
    /\ hPhase = "input"
    /\ hReq \in StatusCalls
    /\ hResp = NoStatusPass
    /\ InitIdem /\ InitOutStream /\ InitDispatcher /\ InitInStream /\ IdleWorker
    /\ IdleAssemble /\ IdleCompose /\ IdleLimit /\ IdleTools /\ IdleMemory

NextStatus == StatusBuild \/ StatusMemory \/ StatusPublish

SpecStatus == InitStatus /\ [][NextStatus]_vars

\* The dispatcher fed with valid envelopes of the worker, each with its own
\* out_id, for a channel with an adapter or without one.
NextNoAdapter ==
    \/ PublishFresh
    \/ DConsumeOnce
    \/ \E e \in 1..MaxOutbound :
          \/ DStart(e) \/ DCheck(e) \/ DSend(e) \/ DMark(e) \/ DAck(e) \/ DAckOnly(e)
          \/ StoreRedeliverOutbound(e)

SpecNoAdapter == InitDispatch /\ [][NextNoAdapter]_vars

\* One inbound entry of user u1, its passes and the user's memory
InitReplay ==
    /\ hPhase = "sched"
    /\ hReq = NoReplay
    /\ hResp = NoReplayHistory
    /\ memory_user_events_max_items \in {2, 15}
    /\ userEvents = [u \in Users |-> <<>>]
    /\ appended = <<>>
    /\ InitIdem /\ InitOutStream /\ InitDispatcher /\ InitInStream /\ IdleWorker
    /\ IdleAssemble /\ IdleCompose /\ IdleLimit /\ IdleTools

NextReplay == ReplayStart \/ ReplayMemory \/ ReplayPublish \/ ReplayAck

SpecReplay == InitReplay /\ [][NextReplay]_vars

-----------------------------------------------------------------------------
(* C9 *)

\* The message of the result that reply text t was taken from: the one whose
\* word t carries.  A tool message is a Tool object or a dict with role "tool".
TakenFrom(r, t) ==
    LET all == IF r.shape = "msg" THEN <<r.msg>> ELSE r.msgs
    IN  {all[i] : i \in {j \in 1..Len(all) : \E k \in 1..Len(t) : t[k] = Word(j)}}

IsToolMessage(m) == m.cls \in {"Tool", "tool"}

CarriesHandoffBack(m) == m.marker \/ m.tcBack

\* C9: the reply_text the worker publishes is never taken from a tool message
\* nor from a message carrying the handoff-back marker or a
\* transfer_back_to_supervisor tool call, and it is never empty.
C9_ReplyNeverInternalNeverEmpty ==
    aPhase = "extracted" =>
        /\ aReply # <<>>
        /\ strip(aReply) = aReply
        /\ aResult.shape \in {"msg", "dict"} /\ strip(aResult.output) = <<>> =>
              \A m \in TakenFrom(aResult, aReply) :
                  ~IsToolMessage(m) /\ ~CarriesHandoffBack(m)

-----------------------------------------------------------------------------
(* C10 *)

\* How many times tool t is listed over all agents of defs.
Occurrences(defs, t) ==
    Cardinality({<<i, j>> \in (1..Len(defs)) \X (1..MaxTools + 1) :
                    j <= Len(defs[i]) /\ defs[i][j] = t})

\* C10: after composition with an LLM response (tools omitted, repeated in
\* two agents, or zero agents), every discovered tool appears in the tools
\* list of exactly one agent.
C10_EveryToolInExactlyOneAgent ==
    cPhase = "done" /\ ~cLlm.raises =>
        \A t \in TaggedTools : Occurrences(cDefs, t) = 1

-----------------------------------------------------------------------------
(* C2 *)

\* C2: for any out_id the dispatcher performs at most one successful channel
\* send, under every interleaving of the tasks that process entries carrying it.
C2_AtMostOneSendPerOutId == \A o \in OutIds : sendCount[o] <= 1

-----------------------------------------------------------------------------
(* C3 *)

IsPrefix(s, t) == Len(s) <= Len(t) /\ SubSeq(t, 1, Len(s)) = s

Carriers(o) == {x \in OutEntries : d_out_id(x) = o}

\* C3: for a valid entry whose out_id was not marked sent when the pass asked,
\* the operations of the pass succeed in the order send, mark_sent, ACK: the
\* entry is ACKed only after both others; and when the send fails the entry
\* stays un-ACKed and pending, and the pass leaves the out_id unmarked.
C3_AckOnlyAfterSendThenMark ==
    \A e \in OutEntries :
        d_valid(e) /\ dt[e].saw = "unsent" =>
            /\ IsPrefix(dt[e].log, <<"send", "mark", "ack">>)
            /\ e \in dAcked => dt[e].log = <<"send", "mark", "ack">>
            /\ Len(dt[e].log) >= 2 => lastMark[d_out_id(e)] >= 0
            /\ dpc[e] = "failed" /\ dt[e].log = <<>> =>
                  /\ e \notin dAcked /\ e \in dPel
                  /\ Carriers(d_out_id(e)) = {e} =>
                        ~was_sent(d_out_id(e)) /\ lastMark[d_out_id(e)] = -1

\* A valid, unmarked entry was sent, marked and ACKed.
C3_Witness ==
    \E e \in OutEntries :
        /\ d_valid(e) /\ dt[e].saw = "unsent" /\ e \in dAcked
        /\ dt[e].log = <<"send", "mark", "ack">>

-----------------------------------------------------------------------------
(* C6 *)

\* Two entries carry the same valid envelope and were processed one after
\* the other, each in a single pass that ran to its end; e1 went first.
OneAfterTheOther(e1, e2) ==
    /\ e1 # e2 /\ outbound[e1] = outbound[e2] /\ d_valid(e1)
    /\ Carriers(d_out_id(e1)) = {e1, e2}
    /\ ~raced[d_out_id(e1)] /\ dRedelivered = 0
    /\ dpc[e1] = "done" /\ dpc[e2] = "done"
    /\ dt[e1].saw = "unsent"

\* C6: the same envelope appearing as two entries processed one after the
\* other gives exactly one channel send and two ACKs: the first pass sees
\* was_sent = false, sends, marks and ACKs; the second sees was_sent = true,
\* does not send, and ACKs.
C6_OneSendTwoAcks ==
    \A e1, e2 \in OutEntries :
        OneAfterTheOther(e1, e2) =>
            /\ sendCount[d_out_id(e1)] = 1
            /\ dt[e1].log = <<"send", "mark", "ack">>
            /\ dt[e2].saw = "sent" /\ dt[e2].log = <<"ack">>
            /\ {e1, e2} \subseteq dAcked

C6_Witness == \E e1, e2 \in OutEntries : OneAfterTheOther(e1, e2)

-----------------------------------------------------------------------------
(* C7 *)

\* C7: was_sent(out_id) is true exactly from the completion of a mark_sent
\* until the TTL has elapsed since the last one; it is false for an out_id
\* never marked and for one whose TTL has expired.
C7_WasSentForTtlWindow ==
    \A o \in OutIds :
        was_sent(o) <=> /\ lastMark[o] >= 0
                        /\ now - lastMark[o] < outbound_idempotency_ttl_seconds

\* Time has passed since a mark_sent, the TTL has not, and was_sent is true.
C7_Witness ==
    \E o \in OutIds : lastMark[o] >= 0 /\ now > lastMark[o] /\ was_sent(o)

-----------------------------------------------------------------------------
(* C1 *)

\* The outbound entries that carry the reply to inbound entry m.
EnvelopesFor(m) == {e \in OutEntries : outbound[e].correlation_id = message_id(m)}

\* C1: an inbound entry is XACKed only after the pass that ACKs it appended
\* an outbound envelope for it; a pass that is over without a publish leaves
\* the entry un-ACKed and pending.
C1_AckOnlyAfterPublish ==
    \A m \in InEntries :
        /\ m \in wAcked => wt[m].published /\ EnvelopesFor(m) # {}
        /\ wpc[m] = "ack" => wt[m].published
        /\ wpc[m] \in WOver /\ ~wt[m].published => m \notin wAcked /\ m \in wPel

\* An entry was ACKed, its pass having published.
C1_Witness == \E m \in InEntries : m \in wAcked /\ wt[m].published /\ wpc[m] = "done"

-----------------------------------------------------------------------------
(* C4 *)

\* The out_ids of the envelopes for m of which a send has succeeded.
DeliveredIds(m) == {outbound[e].out_id : e \in {x \in EnvelopesFor(m) : sendCount[d_out_id(x)] >= 1}}

\* C4 as stated: of the envelopes published for one inbound message, replays
\* included, at most one is delivered to the user.
C4_AtMostOneNetDelivery == \A m \in InEntries : Cardinality(DeliveredIds(m)) <= 1

\* C4: every pass that publishes gives its envelope an out_id no other entry
\* carries, so that the idempotency store never holds back the envelope of a
\* replay: short of a redelivery of the outbound entry itself, no entry is
\* found already sent.
C4_ReplayPublishesFreshOutId ==
    /\ \A e1, e2 \in OutEntries : e1 # e2 => outbound[e1].out_id # outbound[e2].out_id
    /\ \A e \in OutEntries : dRedelivered = 0 => dt[e].saw # "sent"

\* An inbound entry was processed twice, and both envelopes were delivered.
C4_Witness == \E m \in InEntries : Cardinality(DeliveredIds(m)) = 2 /\ dRedelivered = 0

-----------------------------------------------------------------------------
(* C5 *)

\* C5: a pending inbound entry whose pass failed before the ACK is eventually
\* processed again by the worker.
C5_FailedEntryProcessedAgain ==
    \A m \in 1..MaxInbound :
        (m \in wPel /\ wpc[m] \in {"failed", "raised"}) ~> (wpc[m] \in WInside)

-----------------------------------------------------------------------------
(* C8 *)

\* The tool names the grounding rule sets aside.
SetAside(name) ==
    \/ startswith(name, <<"transfer_to_">>)
    \/ name \in {<<"transfer_back_to_supervisor">>, <<"memory_get_context">>,
                 <<"get_current_datetime">>}
    \/ startswith(name, <<"localAudio_">>)

\* The pass went through the supervisor, whose structured status is
\* "success", and the tracker holds an ok event of a tool not set aside.
GroundedSuccess(t) ==
    /\ t.result.shape = "dict" /\ t.result.status = <<"success">>
    /\ \E i \in 1..Len(t.events) : t.events[i].ok /\ ~SetAside(t.events[i].name)

\* C8: a pass writes memory documents only if the supervisor's structured
\* status is "success" and the tracker holds at least one ok event of a
\* non-internal tool; in every other case it writes none of the three.
C8_MemoryOnlyOnGroundedSuccess ==
    \A m \in InEntries : ~GroundedSuccess(wt[m]) => wt[m].wrote = 0

\* A pass has written the three documents.
C8_Witness == \E m \in InEntries : wt[m].wrote = 3 /\ wpc[m] = "publish"

-----------------------------------------------------------------------------
(* C11 *)

\* C11: after agent composition no agent definition holds more than
\* max_tools_per_agent tools, the first agent with the attached tools included.
C11_NoAgentExceedsMaxTools ==
    cPhase = "done" => \A i \in 1..Len(cDefs) : Len(cDefs[i]) <= max_tools_per_agent

-----------------------------------------------------------------------------
(* C12 *)

\* The media items a payload carries: the first NumMedia ones that have a
\* url and a content type.
CarriedMedia(form) ==
    {i \in 1..Len(form.media) :
        /\ ~form.NumMedia.junk /\ i <= form.NumMedia.n
        /\ strip(form.media[i].url) # <<>> /\ strip(form.media[i].ctype) # <<>>}

InvalidPayload(form) ==
    \/ strip(form.From) = <<>>
    \/ strip(form.Body) = <<>> /\ CarriedMedia(form) = {}

\* C12: the webhook answers 400, and appends nothing, exactly for the
\* payloads whose From is blank or whose Body is blank with no media item;
\* every other payload goes to the publisher, and is answered 200 once its
\* entry is appended.
C12_RejectsExactlyInvalidPayloads ==
    hPhase = "done" =>
        /\ hResp.status = 400 <=> InvalidPayload(hReq)
        /\ InvalidPayload(hReq) => inbound = <<>>
        /\ hResp.status = 200 <=> Len(inbound) = 1
        /\ hResp.status \in {200, 400, 500}

\* A payload with a blank Body and one media item was accepted.
C12_Witness ==
    /\ hPhase = "done" /\ hResp.status = 200 /\ Len(inbound) = 1
    /\ strip(hReq.Body) = <<>> /\ CarriedMedia(hReq) # {}

\* A payload was rejected.
C12_Rejected == hPhase = "done" /\ hResp.status = 400 /\ strip(hReq.From) # <<>>

-----------------------------------------------------------------------------
(* C13 *)

\* C13: with twilio_validate_signature on, a request whose signature is
\* invalid is answered 403 and nothing is published for it.
C13_InvalidSignatureRejected ==
    hPhase = "done" /\ hReq.twilio_validate_signature /\ ~hReq.signature_valid =>
        hResp.status = 403 /\ inbound = <<>>

-----------------------------------------------------------------------------
(* C15 *)

\* An outbound entry one of whose required fields is blank.
MissingRequiredField(e) ==
    \E f \in {"out_id", "user_id", "reply_text"} : strip(outbound[e][f]) = <<>>

\* C15: a delivered outbound entry with a blank out_id, user_id or
\* reply_text is never sent on a channel, never checked against nor marked in
\* the idempotency store; its pass goes straight to the XACK, and ends with
\* the entry acknowledged when the XACK succeeds.
C15_InvalidEntryAckedUntouched ==
    \A e \in 1..Len(outbound) : MissingRequiredField(e) =>
        /\ dpc[e] \notin {"check", "send", "mark", "ack", "failed"}
        /\ dt[e].saw = "na"
        /\ dt[e].log \in {<<>>, <<"ack">>}
        /\ dpc[e] = "done" => dt[e].log = <<"ack">> /\ e \in dAcked /\ e \notin dPel

\* An entry with a blank reply_text and a usable out_id was acknowledged, and
\* nothing was sent or marked for its out_id.
C15_Witness ==
    \E e \in 1..Len(outbound) :
        /\ strip(outbound[e].reply_text) = <<>>
        /\ strip(outbound[e].out_id) \in OutIds
        /\ dpc[e] = "done" /\ e \in dAcked
        /\ sendCount[strip(outbound[e].out_id)] = 0
        /\ sentKeys[strip(outbound[e].out_id)] = 0

-----------------------------------------------------------------------------
(* C16 *)

\* C16: a memory failure never ends a pass.  After the prefetch, failed or
\* not, the pass is about to invoke the supervisor; after the memory step,
\* whatever part of the write failed, the pass is about to publish the
\* envelope, and it acknowledges the entry once the publish succeeds.
C16_MemoryFailureNeverBlocks ==
    [][\A m \in 1..MaxInbound :
          /\ wpc[m] = "prefetch" /\ wpc'[m] # "prefetch" =>
                wpc'[m] \in {"supervise", "crashed"}
          /\ wpc[m] = "memory" /\ wpc'[m] # "memory" =>
                wpc'[m] \in {"publish", "crashed"}
          /\ wpc[m] = "publish" /\ wt'[m].published /\ ~wt[m].published =>
                wpc'[m] = "ack"]_vars

\* A pass whose memory write failed part-way has published its envelope and
\* is at the XACK.
C16_Witness ==
    \E m \in 1..MaxInbound :
        /\ wpc[m] = "ack" /\ wt[m].published
        /\ memory_gate(wt[m].result, wt[m].events) /\ wt[m].wrote \in 1..2

\* A pass whose prefetch failed is about to invoke the supervisor.
C16_PrefetchFailed ==
    \E m \in 1..MaxInbound : wpc[m] = "supervise" /\ wt[m].prefetch = "failed"

-----------------------------------------------------------------------------
(* C17 *)

\* C17: a message with no text and an audio item whose transcription raised
\* gets the immediate reply: no exception leaves prepare_for_supervisor, and
\* the pass goes on to the reply without the supervisor.
C17_FailedTranscriptionGetsImmediateReply ==
    \A m \in InEntries : inbound[m].kind = "audio" /\ wt[m].sttFailed =>
        wpc[m] # "raised" /\ wt[m].result = ImmediateReply

-----------------------------------------------------------------------------
(* C18 *)

\* The canonical shape of a create-page call after normalisation: properties
\* is a dict whose title is {"title": ...}, and children holds no string.
SemanticallySound(tool_name, a) ==
    tool_name = POST_PAGE =>
        a.properties.kind = "dict" /\ a.properties.title = "dict_title"
        /\ a.children # "strings"

\* C18: when the semantic preflight or the args_schema rejects the normalized
\* arguments, the inner tool is not invoked and the call returns a
\* validation_error payload whose source is local_semantic_validation (the
\* preflight comes first) or local_schema_validation; the inner tool is
\* invoked only with the normalized arguments, and only when they passed both.
C18_RejectedCallsNeverReachInnerTool ==
    hPhase = "done" =>
        LET norm == normalize_args(hReq.tool, hReq.kwargs)
            sound == SemanticallySound(hReq.tool, norm)
            fits == hReq.has_args_schema => norm.parent = "ok"
        IN  /\ ~sound => /\ ~hResp.inner.invoked
                         /\ hResp.returned = ValidationError("local_semantic_validation")
            /\ sound /\ ~fits => /\ ~hResp.inner.invoked
                                 /\ hResp.returned = ValidationError("local_schema_validation")
            /\ hResp.inner.invoked <=> sound /\ fits
            /\ hResp.inner.invoked => hResp.inner.args = norm

\* A create-page call that fails both checks was answered by the preflight.
C18_Witness ==
    /\ hPhase = "done" /\ hReq.tool = POST_PAGE
    /\ hReq.has_args_schema /\ hReq.kwargs.parent = "absent"
    /\ hReq.kwargs.properties.kind = "str"
    /\ ~hResp.inner.invoked
    /\ hResp.returned = ValidationError("local_semantic_validation")

\* A create-page call was repaired by the normalisation and reached the inner tool.
C18_Repaired ==
    /\ hPhase = "done" /\ hResp.inner.invoked
    /\ hResp.inner.args # hReq.kwargs

-----------------------------------------------------------------------------
(* C19 *)

\* The tool names the definitions of a call hold that no loaded tool bears.
UnknownTools ==
    {t \in DefToolNames :
        /\ t \notin hReq.flat_tools
        /\ \E i \in 1..Len(hReq.agent_definitions) :
              \E j \in 1..Len(hReq.agent_definitions[i]) : hReq.agent_definitions[i][j] = t}

\* C19: when a definition names a tool that is not in the registry, agent
\* building ends with an error naming the agent and the tool and produces no
\* agent; an agent that is built holds every tool its definition names.
C19_UnknownToolFailsTheBuild ==
    hPhase = "done" =>
        /\ UnknownTools # {} => /\ hResp.raised.tool \in UnknownTools
                                /\ hResp.raised.agent \in 1..Len(hReq.agent_definitions)
                                /\ hResp.agents = <<>>
        /\ UnknownTools = {} => hResp.raised = NoAgentError
        /\ \A k \in 1..Len(hResp.agents) :
              hResp.agents[k].tools = hReq.agent_definitions[hResp.agents[k].name]

\* The second definition names an unknown tool after a sound first one: the
\* build failed and the first agent is not returned.
C19_Witness ==
    /\ hPhase = "done"
    /\ Len(hReq.agent_definitions) = 2
    /\ hReq.agent_definitions[1] = <<"t1">> /\ "t1" \in hReq.flat_tools
    /\ hReq.agent_definitions[2] = <<"t3">>
    /\ hResp.raised = [agent |-> 2, tool |-> "t3"] /\ hResp.agents = <<>>

-----------------------------------------------------------------------------
(* C20 *)

\* C20: every field of a published envelope is a string; correlation_id is
\* the inbound message_id (surrounding blanks aside), or the stream entry id
\* when the inbound has none; conversation_id is the inbound conversation_id,
\* or that message id when the inbound has none; and a metadata field, when
\* there is one, parses as JSON: the inbound metadata itself when it parses,
\* else the object {"raw": <inbound metadata>}.
C20_EnvelopeFieldsAreStringsAndLinked ==
    hPhase = "done" =>
        LET p == hReq.payload
            inbound_id == IF strip(p.message_id) = <<>> THEN hReq.stream_message_id
                          ELSE strip(p.message_id)
        IN  /\ \A f \in DOMAIN hResp : hResp[f].type = "str"
            /\ hResp["correlation_id"].v = inbound_id
            /\ hResp["conversation_id"].v =
                  IF strip(p.conversation_id) = <<>> THEN inbound_id ELSE strip(p.conversation_id)
            /\ "metadata" \in DOMAIN hResp => json_loads_ok(hResp["metadata"].v)
            /\ "metadata" \in DOMAIN hResp /\ json_loads_ok(p.metadata) =>
                  hResp["metadata"].v = p.metadata
            /\ hResp["reply_text"].v # <<>>

\* An envelope built for an entry without message_id whose metadata holds an
\* unbalanced quote: the metadata was wrapped and the ids fall back.
C20_Witness ==
    /\ hPhase = "done"
    /\ hReq.payload.message_id = <<>> /\ hReq.payload.conversation_id = <<>>
    /\ hReq.payload.metadata = <<Q, "a">>
    /\ hResp["correlation_id"].v = <<"1-0">> /\ hResp["conversation_id"].v = <<"1-0">>
    /\ hResp["metadata"].v = <<"{", Q, "raw", Q, ":", SP, Q, ESCQ, "a", Q, "}">>

-----------------------------------------------------------------------------
(* C14 *)

\* p is the media root or lies below it.
UnderMediaRoot(p) ==
    Len(p) >= Len(MEDIA_ROOT) /\ SubSeq(p, 1, Len(MEDIA_ROOT)) = MEDIA_ROOT

\* Where the request points once "..", "." and links are resolved.
RequestedFile == resolve(IF hReq.absolute THEN hReq.comps ELSE MEDIA_ROOT \o hReq.comps)

\* C14: a request whose resolved path is neither the media root nor below it
\* is answered 400, whether or not a file is there; one that resolves under
\* the root to nothing or to something that is not a regular file is
\* answered 404; so the file served is always a regular file under the root.
C14_NeverServesOutsideMediaRoot ==
    hPhase = "done" =>
        /\ ~UnderMediaRoot(RequestedFile) => hResp.status = 400
        /\ UnderMediaRoot(RequestedFile) /\ RequestedFile \notin Files => hResp.status = 404
        /\ hResp.status = 200 =>
              hResp.served = RequestedFile /\ UnderMediaRoot(hResp.served)
              /\ hResp.served \in Files

\* A request that climbs out of the root to an existing file was answered 400.
C14_Witness ==
    /\ hPhase = "done"
    /\ ~hReq.absolute /\ hReq.comps = <<"..", "..", "etc", "passwd">>
    /\ RequestedFile \in Files
    /\ hResp.status = 400

\* A request through a link that leaves the root was answered 400, and one
\* through a link that stays inside was served.
C14_LinkOut == hPhase = "done" /\ hReq.comps = <<"out", "passwd">> /\ hResp.status = 400
C14_LinkIn == hPhase = "done" /\ hReq.comps = <<"in", "a.mp3">> /\ hResp.status = 200

-----------------------------------------------------------------------------
(* C21 *)

\* The tools some server's blacklisted_tools lists.
Blacklisted == hReq.blacklist_mcp \cup hReq.blacklist_local

\* C21: no blacklisted tool is in the tool registry nor held by a built
\* agent, and when a definition names a blacklisted tool no agent is built.
C21_BlacklistedToolsNeverHeld ==
    hPhase = "done" =>
        /\ hResp.registry \cap Blacklisted = {}
        /\ \A k \in 1..Len(hResp.agents) : \A j \in 1..Len(hResp.agents[k].tools) :
              hResp.agents[k].tools[j] \notin Blacklisted
        /\ (\E i \in 1..Len(hReq.agent_definitions) :
               \E j \in 1..Len(hReq.agent_definitions[i]) :
                  hReq.agent_definitions[i][j] \in Blacklisted)
           => hResp.agents = <<>>

\* The local tool is blacklisted and a definition names it after a sound
\* one: the registry holds the remote tools only and the build failed.
C21_Witness ==
    /\ hPhase = "done"
    /\ hReq.blacklist_local = {"localAudio_tts"} /\ hReq.blacklist_mcp = {"notionApi_delete"}
    /\ hReq.agent_definitions = << <<"notionApi_search">>, <<"localAudio_tts">> >>
    /\ hResp.registry = {"notionApi_search"}
    /\ hResp.raised = [agent |-> 2, tool |-> "localAudio_tts"] /\ hResp.agents = <<>>

-----------------------------------------------------------------------------
(* C22 *)

\* The steps a pass may take from each position: what follows a position in
\* _process_message, the ways out through an exception, and the stop of the
\* process.
StepsAfter(pc) ==
    CASE pc = "none" -> {"sched"}
      [] pc = "sched" -> {"prefetch", "reply", "raised", "crashed"}
      [] pc = "prefetch" -> {"supervise", "crashed"}
      [] pc = "supervise" -> {"reply", "failed", "crashed"}
      [] pc = "reply" -> {"memory", "crashed"}
      [] pc = "memory" -> {"publish", "crashed"}
      [] pc = "publish" -> {"ack", "failed", "crashed"}
      [] pc = "ack" -> {"done", "failed", "crashed"}
      [] pc = "done" -> {}
      [] OTHER -> {"sched"}

\* C22: within a pass the steps come in the order preprocess, memory
\* prefetch and supervisor, reply extraction with the audio reply, memory
\* gate, publish, ACK.  The supervisor is entered only from the prefetch, by a
\* pass without immediate reply, so at most once per pass; a pass with an
\* immediate reply goes from the preprocessor to the reply; and the outbound
\* stream grows by one envelope, only in the step from publish to ACK.
C22_StepsInCausalOrder ==
    [][/\ \A m \in 1..MaxInbound :
             /\ wpc'[m] # wpc[m] => wpc'[m] \in StepsAfter(wpc[m])
             /\ wpc'[m] = "supervise" /\ wpc[m] # "supervise" => wt'[m].result = NoResult
             /\ wpc[m] = "supervise" /\ wpc'[m] = "reply" =>
                   wt[m].result = NoResult /\ wt'[m].result.shape = "dict"
             /\ wpc[m] = "sched" /\ wpc'[m] = "reply" => wt'[m].result = ImmediateReply
       /\ outbound' # outbound =>
             /\ Len(outbound') = Len(outbound) + 1
             /\ Cardinality({m \in 1..MaxInbound : wpc[m] = "publish" /\ wpc'[m] = "ack"}) = 1
      ]_vars

\* A pass that went through the supervisor has published and is at the ACK.
C22_Witness ==
    \E m \in InEntries :
        /\ wpc[m] = "ack" /\ wt[m].published /\ wt[m].result.shape = "dict"
        /\ Len(outbound) = 1

\* A pass with an immediate reply has published and is at the ACK.
C22_ImmediateReplyPublished ==
    \E m \in InEntries : wpc[m] = "ack" /\ wt[m].published /\ wt[m].result = ImmediateReply

-----------------------------------------------------------------------------
(* C23 *)

\* An AI message that may be shown to the user: not a tool message, no
\* handoff-back marker, no transfer_back_to_supervisor call, some text.
IsUserFacingAI(m) ==
    /\ m.cls = "AI"
    /\ ~m.marker /\ ~m.tcBack
    /\ \E k \in 1..Len(m.content) : m.content[k] # SP

\* The supervisor result holds a list of message objects (and no "output" text).
HoldsMessageList(r) == r.shape = "dict" /\ r.objs /\ strip(r.output) = <<>>

SupervisorAnswers(l) == {i \in 1..Len(l) : IsUserFacingAI(l[i]) /\ l[i].name = "supervisor"}

UserFacingAnswers(l) == {i \in 1..Len(l) : IsUserFacingAI(l[i])}

-----------------------------------------------------------------------------
(* C24 *)

\* The JSON object a tool result carries, whatever the shape it comes in.
CarriesPayload(result) == result.shape \in {"str", "parts", "dict"} /\ result.text.kind = "json_object"

\* Error-like: a stable error payload (error_type set), an error key, an
\* error object, or a status of 400 or more.
PayloadIsErrorLike(p) ==
    \/ p.error_type # "absent"
    \/ p.error # "absent"
    \/ p.object = "error"
    \/ (IF p.status # 0 THEN p.status ELSE p.status_code) >= 400

\* C24: every invocation of a wrapped tool whose inner tool returned records
\* exactly one grounding event, bearing the tool's name, and when the result
\* carries a JSON object (as a JSON string, as a list of text parts or as a
\* dict) the event's ok is false exactly when that object is error-like.
C24_OneEventWithOkIffNotErrorLike ==
    \A i \in 1..Len(toolCalls) :
        LET c == toolCalls[i]
        IN  c.result.shape # "raises" =>
              /\ Len(c.recorded) = 1
              /\ c.recorded[1].name = c.name
              /\ CarriesPayload(c.result) =>
                    (c.recorded[1].ok <=> ~PayloadIsErrorLike(c.result.text.obj))

-----------------------------------------------------------------------------
(* C25 *)

\* The tasks working for message m: its own task and the sub-task of its
\* supervisor run.
TasksOf(m) == {m, sub(m)}

\* The tool invocations whose events the gate of m read
SeenBy(m) == {tasks[m].seen[k].call : k \in 1..Len(tasks[m].seen)}

\* C25: the grounding gate of a message reads only events recorded by that
\* message's own task and sub-tasks, all of them recorded after its
\* processing began, never an event of another message processed at the same
\* time; and it reads every event its own task and sub-tasks recorded before
\* the gate.
C25_GroundingStatePerMessage ==
    \A m \in MsgTasks :
        tasks[m].pc = "done" =>
            /\ \A i \in SeenBy(m) : toolCalls[i].task \in TasksOf(m) /\ i > tasks[m].began
            /\ \A i \in 1..tasks[m].gated : toolCalls[i].task \in TasksOf(m) => i \in SeenBy(m)

\* C25 witness: the two messages were processed at the same time, a tool ran
\* for A, then B began and ran a tool, then the sub-task of A ran one; each
\* gate read its own events.
C25_Witness ==
    /\ tasks["A"].pc = "done" /\ tasks["B"].pc = "done"
    /\ Len(toolCalls) = 3
    /\ toolCalls[1].task = "A" /\ toolCalls[2].task = "B" /\ toolCalls[3].task = sub("A")
    /\ tasks["B"].began = 1
    /\ SeenBy("A") = {1, 3}
    /\ SeenBy("B") = {2}

-----------------------------------------------------------------------------
(* C26 *)

\* The occurrences, before the i-th invocation, of the same provider error
\* (same message) from the same tool
EarlierSame(i) ==
    {j \in 1..(i - 1) : /\ toolCalls[j].name = toolCalls[i].name
                        /\ toolCalls[j].result = toolCalls[i].result}

RepeatCountOf(i) == toolCalls[i].returned.text.obj.repeat_count

\* C26: for a given tool and provider error message, the normalized error
\* carries repeat_count 1 at the first occurrence and at an occurrence more
\* than 60 s after the previous one, and the previous repeat_count plus one at
\* an occurrence at most 60 s after the previous one; occurrences for another
\* tool or another message do not count.
C26_RepeatCountWithinWindow ==
    \A i \in 1..Len(toolCalls) :
        IF EarlierSame(i) = {} THEN RepeatCountOf(i) = 1
        ELSE LET j == SetMax(EarlierSame(i))
             IN  IF toolCalls[i].at - toolCalls[j].at > 60
                 THEN RepeatCountOf(i) = 1
                 ELSE RepeatCountOf(i) = RepeatCountOf(j) + 1

\* C26 witness: the same error of the same tool occurred three times: the
\* second more than 60 s after the first (count 1 again), the third at most
\* 60 s after the second (count 2), with nothing else in between.
C26_Witness ==
    /\ Len(toolCalls) = 3
    /\ EarlierSame(3) = {1, 2}
    /\ toolCalls[2].at - toolCalls[1].at > 60
    /\ toolCalls[3].at - toolCalls[2].at <= 60
    /\ RepeatCountOf(1) = 1 /\ RepeatCountOf(2) = 1 /\ RepeatCountOf(3) = 2

\* The second occurrence came exactly 60 s after the first and counts as a repeat.
C26_AtTheEdge ==
    /\ Len(toolCalls) = 2
    /\ EarlierSame(2) = {1}
    /\ toolCalls[2].at - toolCalls[1].at = 60
    /\ RepeatCountOf(2) = 2

\* An occurrence for another tool and one for another message lie between two
\* occurrences of the same error, and the count goes from 1 to 2 all the same.
C26_OthersInBetween ==
    /\ Len(toolCalls) = 3
    /\ EarlierSame(3) = {1}
    /\ RepeatCountOf(3) = 2

-----------------------------------------------------------------------------
(* C27 *)

\* The first provider validation error the tool of the i-th invocation
\* returned while its inbound message was being processed
FirstForItsMessage(i) ==
    \A j \in 1..(i - 1) :
        ~(toolCalls[j].name = toolCalls[i].name /\ toolCalls[j].task = toolCalls[i].task)

\* C27: the first provider validation error a tool returns while an inbound
\* message is being processed carries repeat_count 1, whatever the same tool
\* returned shortly before while another inbound message was being processed.
C27_RetryBudgetPerInboundMessage ==
    \A i \in 1..Len(toolCalls) : FirstForItsMessage(i) => RepeatCountOf(i) = 1

-----------------------------------------------------------------------------
(* C28 *)

\* N: the setting clamped to [1, 200], 15 when it is not given
EventsLimit ==
    IF memory_user_events_max_items = 0 THEN 15
    ELSE IF memory_user_events_max_items < 1 THEN 1
    ELSE IF memory_user_events_max_items > 200 THEN 200
    ELSE memory_user_events_max_items

\* The events appended for the user among the first k appends
AppendedFor(user, k) == {i \in 1..k : appended[i].user = user}

\* ids lists the N most recently appended events of S, newest first
IsMostRecentOf(ids, S) ==
    /\ Len(ids) = Min2(EventsLimit, Cardinality(S))
    /\ \A j \in 1..Len(ids) : ids[j] \in S
    /\ \A j \in 1..(Len(ids) - 1) : ids[j] > ids[j + 1]
    /\ \A x \in S : Len(ids) > 0 /\ x >= ids[Len(ids)] => \E j \in 1..Len(ids) : ids[j] = x

\* C28: after any sequence of append_user_event calls the list of a user
\* holds at most N entries, namely the user's most recently appended events,
\* newest first; get_context returns at most N recent events in that order.
C28_EventListBoundedNewestFirst ==
    /\ \A u \in Users :
          /\ Len(userEvents[u]) <= EventsLimit
          /\ \A j \in 1..Len(userEvents[u]) :
                userEvents[u][j] = event_payload(userEvents[u][j][2])
          /\ IsMostRecentOf([j \in 1..Len(userEvents[u]) |-> userEvents[u][j][2]],
                            AppendedFor(u, Len(appended)))
    /\ hPhase = "done" =>
          /\ Len(hResp.recent_events) <= EventsLimit
          /\ IsMostRecentOf(hResp.recent_events, AppendedFor(hResp.user_id, hResp.after))

\* C28 witness: with N = 2, three events were appended for one user, one for
\* the other in between; the list dropped the oldest and get_context returned
\* the two newest, newest first.
C28_Witness ==
    /\ EventsLimit = 2
    /\ Len(appended) = 3
    /\ AppendedFor("u1", 3) = {1, 3}
    /\ hPhase = "done" /\ hResp.user_id = "u1" /\ hResp.after = 3
    /\ hResp.recent_events = <<3, 1>>

\* A full list of 200 entries took one more event and dropped its oldest.
C28_FullListOfTwoHundred ==
    /\ memory_user_events_max_items = 250
    /\ Len(appended) = 201
    /\ Len(userEvents["u1"]) = 200
    /\ userEvents["u1"][1] = event_payload(201)
    /\ userEvents["u1"][200] = event_payload(2)

-----------------------------------------------------------------------------
(* C29 *)

\* The id field of the key an upsert writes
IdField(kind) == IF kind = "user_profile" THEN "user_id" ELSE "conversation_id"

\* The fields an upsert decides by itself
StableFields(kind) ==
    {"schema", "created_at", "updated_at", "user_id"}
    \cup (IF kind = "conversation_state" THEN {"conversation_id"} ELSE {})

\* C29: after an upsert on an existing document, schema and created_at are
\* the existing document's, the id field is the id of the key written,
\* whatever keys the patch holds; the other existing fields the patch does
\* not name are unchanged, the patch's fields are applied, and updated_at is
\* the time of the upsert.
C29_UpsertKeepsStableBaseFields ==
    hPhase = "done" /\ hReq.existing_raw.kind = "json_object" =>
        LET existing == hReq.existing_raw.doc
            merged == hResp.merged
        IN  /\ existing["schema"] \notin {"absent", ""} => merged["schema"] = existing["schema"]
            /\ existing["created_at"] \notin {"absent", ""} =>
                  merged["created_at"] = existing["created_at"]
            /\ merged[IdField(hReq.kind)] = hReq[IdField(hReq.kind)]
            /\ merged["updated_at"] = hReq.now_iso
            /\ \A f \in DocFields \ StableFields(hReq.kind) :
                  merged[f] = IF hReq.patch[f] # "absent" THEN hReq.patch[f] ELSE existing[f]
            /\ hResp.stored = merged

-----------------------------------------------------------------------------
(* C30 *)

\* C30: at every moment at most max_concurrency entries are inside
\* _process_message / _process_one, however many were scheduled; every exit,
\* a raise included, gives its slot back, so the slots left and the entries
\* inside always add up to max_concurrency and a waiting entry is let in
\* whenever fewer than max_concurrency are inside.
C30_AtMostMaxConcurrencyInside ==
    /\ Cardinality(InsideLimit) <= LimitMaxConcurrency
    /\ semaphore + Cardinality(InsideLimit) = LimitMaxConcurrency
    /\ \A t \in Scheduled :
          tasks[t].pc = "waiting" /\ Cardinality(InsideLimit) < LimitMaxConcurrency
             => ENABLED EnterLimit(t)

\* C30 witness: more entries were scheduled than there are slots; processing
\* one of them raised, and afterwards max_concurrency entries are inside again
\* while another waits.
C30_Witness ==
    /\ \E t \in Scheduled : tasks[t].pc = "raised"
    /\ Cardinality(InsideLimit) = LimitMaxConcurrency
    /\ \E t \in Scheduled : tasks[t].pc = "waiting"
    /\ semaphore = 0

-----------------------------------------------------------------------------
(* C31 *)

C31_Streams == <<inbound, outbound, wLast, dLast, wPel, dPel, wAcked, dAcked>>

\* C31: ensuring the consumer group is idempotent.  A start() that finds the
\* group (the store answers BUSYGROUP) goes on to the consume loop and leaves
\* the pending entries, the last-delivered position and the streams as they
\* were; a start() whose XGROUP CREATE fails in any other way ends with that
\* exception and changes nothing; and entries are read from the group only
\* by a process that is in its consume loop.
C31_EnsureGroupIdempotent ==
    [][ /\ (hPhase = "input" /\ hPhase' # "input") =>
              /\ hResp'.exc = <<>> => ~hReq.group /\ hReq'.group
              /\ hResp'.exc = BusyGroup =>
                    /\ hReq.group
                    /\ hPhase' = "consuming"
                    /\ C31_Streams' = C31_Streams
              /\ hResp'.exc \notin {<<>>, BusyGroup} =>
                    /\ hPhase' = "raised"
                    /\ hReq'.group = hReq.group
                    /\ C31_Streams' = C31_Streams
                    /\ wpc' = wpc /\ dpc' = dpc
        /\ (wLast' # wLast \/ dLast' # dLast \/ wPel' # wPel \/ dPel' # dPel) =>
              hPhase = "consuming" /\ hPhase' = "consuming"
      ]_vars

\* C31 witness: a relaunched process found its group with an entry pending,
\* and is in its consume loop with that entry still pending.
C31_Witness ==
    /\ hPhase = "consuming"
    /\ hResp.exc = BusyGroup
    /\ hResp.pending # {}
    /\ Pending(hReq.who) = hResp.pending

\* C31: a start() ended by a failure of the store although the group exists,
\* with an entry pending.
C31_RaisedWitness ==
    /\ hPhase = "raised"
    /\ hResp.exc \in StoreFaults
    /\ hResp.existed
    /\ hResp.pending # {}

-----------------------------------------------------------------------------
(* C32 *)

\* The text prepare_for_supervisor hands to the language detection
C32_Text ==
    IF strip(hReq.text) # <<>> THEN strip(hReq.text)
    ELSE IF hReq.audio = "transcript" THEN <<"hola">> ELSE <<>>

\* The detection was reached: the transcription, if any, did not raise, and
\* there is a text.
C32_Detects == C32_Text # <<>> /\ ~(strip(hReq.text) = <<>> /\ hReq.audio = "raises")

\* A result of the tool that is well formed: a dict holding a detected
\* language and an English text.
C32_WellFormed ==
    /\ hReq.detect.kind = "dict"
    /\ strip(get_or_empty(hReq.detect.detected_language)) # <<>>
    /\ strip(get_or_empty(hReq.detect.english_text)) # <<>>

C32_TreatedAsEnglish ==
    /\ ~hResp.raised
    /\ hResp.immediate_reply = <<>>
    /\ hResp.detected_language = <<"English">>
    /\ hResp.english_text = C32_Text
    /\ hResp.original_text = C32_Text
    /\ hResp.is_english
    /\ ~hResp.supervisor_input.requires_translation_to_english

\* C32: when the language detection fails (the tool raises, or returns
\* something that is not a well-formed result) the text is treated as
\* English: detected_language English, english_text the original text,
\* is_english true, and the supervisor input is built instead of the call
\* failing.
C32_DetectionFailureMeansEnglish ==
    (hPhase = "done" /\ C32_Detects /\ ~C32_WellFormed) => C32_TreatedAsEnglish

\* C32: what holds of a detection that returns something that is not a dict
C32_NonDictMeansEnglish ==
    (hPhase = "done" /\ C32_Detects /\ hReq.detect.kind = "other") => C32_TreatedAsEnglish

\* C32: the tool raised and the call ended with the exception
C32_RaisedWitness ==
    /\ hPhase = "done" /\ C32_Detects
    /\ hReq.detect.kind = "raises"
    /\ hResp.raised

\* C32: the tool returned a dict without a detected language, and the text
\* is handed on as not English, with an empty language
C32_BlankLanguageWitness ==
    /\ hPhase = "done" /\ C32_Detects
    /\ hReq.detect.kind = "dict"
    /\ hReq.detect.detected_language = Absent
    /\ ~hResp.raised
    /\ hResp.detected_language = <<>>
    /\ ~hResp.is_english
    /\ hResp.supervisor_input.requires_translation_to_english

-----------------------------------------------------------------------------
(* C33 *)

\* The audio reply could be built: speech was synthesized to a file, the
\* file was copied under the media root, and a public base URL is set.
C33_AudioBuilt ==
    /\ hReq.tts.kind = "dict"
    /\ strip(get_or_empty(hReq.tts.file_path)) # <<>>
    /\ hReq.copy = "ok"
    /\ strip(hReq.media_public_base_url) # <<>>

C33_HasAudioFields(p) == AudioFields \subseteq DOMAIN p

C33_AudioWitness ==
    /\ hPhase = "done"
    /\ C33_HasAudioFields(hResp.published[1])
    /\ hResp.published[1].reply_audio_mime_type = Str(<<"audio/", "wav">>)

-----------------------------------------------------------------------------
(* C34 *)

\* The entry's audio URL, <<>> when it carries none
C34_AudioUrl == strip(get_or_empty(hReq.payload.reply_audio_url))

\* C34: an entry that is delivered is delivered as text plus media, the
\* media being its reply_audio_url, when it carries a non-empty
\* reply_audio_url, and as text only when it carries none.
C34_TextPlusMediaWhenAudioUrl ==
    (hPhase = "done" /\ hResp.created # <<>>) =>
        LET to == strip(hReq.payload.user_id)
            body == strip(hReq.payload.reply_text)
        IN  IF C34_AudioUrl # <<>>
            THEN hResp.created = send_text_with_media(to, body, C34_AudioUrl, FALSE).created
            ELSE hResp.created = send_text(to, body, FALSE).created

\* C34: what the dispatcher does: every delivery is one text-only request
C34_AlwaysTextOnly ==
    (hPhase = "done" /\ hResp.created # <<>>) =>
        hResp.created = <<MessagesCreate(strip(hReq.payload.user_id),
                                         strip(hReq.payload.reply_text), <<>>)>>

\* C34: an entry with an audio URL was delivered and acknowledged without
\* the media
C34_AudioDroppedWitness ==
    /\ hPhase = "done"
    /\ hResp.outcome = "delivered" /\ hResp.acked
    /\ C34_AudioUrl # <<>>
    /\ hResp.created[1].media_url = <<>>

-----------------------------------------------------------------------------
(* C35 *)

C35_Servers == {hReq.tagged_tools[i].source_server : i \in 1..Len(hReq.tagged_tools)}

C35_AgentsOf(s) == {i \in 1..Len(hResp.agents) : hResp.agents[i].source_server = s}

\* C35: when the LLM categorization call raises, composition does not raise:
\* it returns exactly one agent definition per source_server of the input,
\* holding all of that server's tools, with the default responsibility and
\* the default system message (naming that server's tools) when the agent
\* config has no entry for the server.
C35_FallbackOneAgentPerServer ==
    hPhase = "done" =>
        /\ ~hResp.raised
        /\ Len(hResp.agents) = Cardinality(C35_Servers)
        /\ \A s \in C35_Servers :
              /\ Cardinality(C35_AgentsOf(s)) = 1
              /\ \A i \in C35_AgentsOf(s) :
                    /\ hResp.agents[i].tools = tool_names_of(hReq.tagged_tools, s)
                    /\ hReq.agent_cfg_map[s] # "config" =>
                          /\ hResp.agents[i].responsibility
                                = default_cfg(s, <<>>).responsibility
                          /\ hResp.agents[i].system_message
                                = [agent |-> s, tools |-> tool_names_of(hReq.tagged_tools, s)]

\* C35: what holds when every server of the input has an agent config
C35_FallbackWithConfig ==
    (hPhase = "done" /\ \A s \in C35_Servers : hReq.agent_cfg_map[s] = "config") =>
        /\ ~hResp.raised
        /\ Len(hResp.agents) = Cardinality(C35_Servers)
        /\ \A s \in C35_Servers :
              /\ Cardinality(C35_AgentsOf(s)) = 1
              /\ \A i \in C35_AgentsOf(s) :
                    /\ hResp.agents[i].tools = tool_names_of(hReq.tagged_tools, s)
                    /\ hResp.agents[i].responsibility = config_cfg(s).responsibility

\* C35: the fallback raised, the first server of the input having no config
C35_RaisedWitness ==
    /\ hPhase = "done"
    /\ hReq.tagged_tools # <<>>
    /\ hReq.agent_cfg_map[hReq.tagged_tools[1].source_server] = "missing"
    /\ hResp.raised

\* C35: a later server without config got a default system message that
\* lists the tools of the server before it
C35_StaleToolsWitness ==
    /\ hPhase = "done" /\ ~hResp.raised
    /\ \E i \in 2..Len(hResp.agents) :
          /\ hReq.agent_cfg_map[hResp.agents[i].source_server] = "missing"
          /\ hResp.agents[i].system_message.tools = hResp.agents[i - 1].tools
          /\ hResp.agents[i].system_message.tools # hResp.agents[i].tools

-----------------------------------------------------------------------------
(* C36 *)

\* C36: tool discovery is cached per boot.  The cache of a server holds the
\* list of the first discovery that succeeded since the last connect() (and
\* nothing before one succeeded, so a failed discovery is not cached);
\* connect() leaves the cache empty; a get_tools call for a server whose
\* discovery succeeded returns that list and does not contact the server; a
\* get_tools call of a connected client for a configured server without a
\* cached list contacts the server once; and get_all_tools gives the cached
\* list for every server that has one.
C36_DiscoveryCachedPerBoot ==
    /\ \A s \in ConfiguredServers : hReq.cache[s] = hReq.first[s]
    /\ hPhase = "connect" => \A s \in ConfiguredServers : hReq.cache[s] = NotCached
    /\ (hPhase = "get_tools" /\ hResp.call.pc = "returned" /\ ~hResp.call.contacted) =>
          /\ hResp.call.result # NotCached
          /\ hResp.call.result = hReq.first[hResp.call.server]
    /\ (hPhase = "get_tools" /\ hResp.call.pc = "returned" /\ hResp.call.contacted) =>
          hResp.call.result = hReq.first[hResp.call.server]
    /\ (hPhase = "get_tools" /\ hResp.call.pc = "raised") =>
          \/ ~hResp.call.contacted
          \/ hReq.cache[hResp.call.server] = NotCached
    /\ hPhase = "get_all_tools" =>
          \A s \in ConfiguredServers :
             hReq.first[s] # NotCached => hResp.all_tools[s] = hReq.first[s]

\* C36: the steps of get_tools.  A call for a server with a cached list
\* returns at once, with that list, and no server is contacted; a call of a
\* connected client for a configured server without one contacts that server
\* once.
C36_ContactOnlyWithoutCache ==
    [][ (hPhase' = "get_tools" /\ hResp.call.pc # "discovering") =>
           LET s == hResp'.call.server
           IN  IF s \in ConfiguredServers /\ hReq.first[s] # NotCached
               THEN /\ hResp'.call.pc = "returned"
                    /\ hResp'.call.result = hReq.first[s]
                    /\ hReq'.contacts = hReq.contacts
               ELSE IF s \in ConfiguredServers /\ hReq.client
               THEN /\ hResp'.call.pc = "discovering"
                    /\ hReq'.contacts = [hReq.contacts EXCEPT ![s] = @ + 1]
               ELSE hResp'.call.pc = "raised" /\ hReq'.contacts = hReq.contacts
      ]_vars

\* C36 witness: a discovery failed and was not cached, the next one
\* succeeded, the server was upgraded, and a later call returned the first
\* list without contacting the server.
C36_Witness ==
    /\ hPhase = "get_tools"
    /\ hResp.call.pc = "returned" /\ ~hResp.call.contacted
    /\ hResp.call.server = "notionApi"
    /\ hReq.contacts["notionApi"] = 2
    /\ hResp.call.result = 1
    /\ hReq.offer["notionApi"] = 2

\* C36: connect() emptied a cache that held a list
C36_ReconnectWitness ==
    /\ hPhase = "connect"
    /\ hReq.contacts["notionApi"] > 0
    /\ hResp.call.pc = "returned" /\ hResp.call.result # NotCached
    /\ hReq.cache[hResp.call.server] = NotCached

-----------------------------------------------------------------------------
(* C37 *)

\* The entry's text is empty after trimming
C37_NoText == hReq.text = Absent \/ strip(hReq.text) = <<>>

C37_PublishedWitness ==
    /\ hPhase = "done" /\ hResp.acked
    /\ hReq.text = <<SP, "hi", SP>>
    /\ Len(hResp.published) = 1

-----------------------------------------------------------------------------
(* C38 *)

\* C38: every envelope the worker builds and publishes carries status
\* "success", whatever the status of the supervisor's structured reply, and
\* for immediate replies; the envelope is the same for every status the
\* reply could carry; the status decides, together with the grounding, only
\* whether the memory write is made.
C38_OutboundStatusAlwaysSuccess ==
    /\ hPhase # "input" =>
          /\ hResp.out_payload["status"] = Str(<<"success">>)
          /\ \A st \in ReplyStatuses :
                hReq.result.shape = "dict" =>
                   outbound_envelope([hReq.result EXCEPT !.status = st]) = hResp.out_payload
    /\ hPhase = "done" =>
          /\ Len(hResp.published) = 1
          /\ hResp.published[1] = hResp.out_payload
          /\ hResp.published[1]["status"] = Str(<<"success">>)
    /\ hPhase \in {"publish", "done", "failed"} =>
          (hResp.gate <=> (lower(strip(extract_structured_status(hReq.result))) = <<"success">>
                           /\ any_grounded_success(hReq.events, FALSE)))

\* C38 witness: the supervisor's reply had status "error" and grounded
\* events; the memory write was skipped and the envelope went out with
\* status "success".
C38_Witness ==
    /\ hPhase = "done"
    /\ hReq.result.shape = "dict" /\ hReq.result.status = <<"error">>
    /\ any_grounded_success(hReq.events, FALSE)
    /\ ~hResp.gate
    /\ hResp.published[1]["status"] = Str(<<"success">>)

\* C38: an immediate reply went out with status "success"
C38_ImmediateWitness ==
    /\ hPhase = "done"
    /\ hReq.result = ImmediateReply
    /\ hResp.published[1]["status"] = Str(<<"success">>)
    /\ hResp.published[1]["reply_text"] = Str(ImmediateReply.text)

-----------------------------------------------------------------------------
(* C39 *)

\* Valid entries whose source has no channel adapter
C39_NoAdapter == {e \in OutEntries : d_valid(e) /\ d_source(e) # <<"whatsapp">>}

-----------------------------------------------------------------------------
(* C40 *)

\* The pass under way passed the gate with a healthy store and has not
\* reached its memory step yet
C40_WriteAhead == IF hPhase = "memory" /\ hReq.gate /\ hReq.healthy = 3 THEN 1 ELSE 0

\* C40: the memory write comes before the publish and is not undone.  The
\* One event was appended for each pass of the entry that passed the gate
\* (with a store accepting the writes), whether or not the publish of that
\* pass succeeded, so every reprocessing that passes the gate appends one
\* more (the list keeps the newest max_items of them); when a pass is at or
\* beyond its publish, its writes are made and its event heads the list; no
\* step takes an event or a document back, and a failed publish or XACK
\* changes nothing in the memory and leaves the entry un-ACKed.
C40_MemoryWriteSurvivesFailedPublish ==
    /\ [](/\ Len(appended) = hResp.gated - C40_WriteAhead
          /\ Len(userEvents["u1"]) =
                Min2(Len(appended), max_items(memory_user_events_max_items))
          /\ (hPhase \in {"publish", "ack", "done", "failed"} /\ hReq.gate) =>
                /\ hReq.healthy >= 1 => hReq.conversation_state = hReq.passes
                /\ hReq.healthy >= 2 => hReq.user_profile = hReq.passes
                /\ hReq.healthy = 3 =>
                      parse_event(userEvents["u1"][1]) = Len(appended)
          /\ hPhase = "failed" => ~hResp.acked
          /\ hResp.acked => hResp.published > 0)
    /\ [][ /\ Len(appended') >= Len(appended)
           /\ hReq'.conversation_state >= hReq.conversation_state
           /\ hReq'.user_profile >= hReq.user_profile
           /\ hPhase' = "failed" =>
                 /\ userEvents' = userEvents /\ appended' = appended
                 /\ hReq'.conversation_state = hReq.conversation_state
                 /\ hReq'.user_profile = hReq.user_profile
                 /\ hResp'.acked = hResp.acked
         ]_vars

\* C40 witness: the publish failed in two passes that passed the gate; two
\* events for the one inbound message are in the user's list, both documents
\* are written, nothing was published and the entry is not ACKed.
C40_Witness ==
    /\ hPhase = "failed"
    /\ hReq.passes = 2 /\ hResp.gated = 2
    /\ Len(userEvents["u1"]) = 2
    /\ hReq.conversation_state = 2 /\ hReq.user_profile = 2
    /\ hResp.published = 0 /\ ~hResp.acked

====
